---- MODULE Spec2Model ----
(***************************************************************************)
(* Launtel plan changer: the plan-change engine (lib/services/             *)
(* plan-changer.ts), the manual trigger route (POST /api/plans/change),    *)
(* the SQLite tables (lib/db) and the one-minute scheduler                 *)
(* (lib/scheduler.ts).                                                     *)
(*                                                                         *)
(* One action is one turn of the Node.js event loop: the arrival of an     *)
(* HTTP response (or transport error) together with all the synchronous    *)
(* code that runs before the next await on network I/O.                    *)
(***************************************************************************)
EXTENDS Integers, Sequences, FiniteSets, TLC

VARIABLES
    runs,          \* every changePlan invocation, in invocation order
    jars,          \* number of CookieJar objects constructed so far
    delivered,     \* what the latest event-loop turn handled
    settings,      \* settings table (row id = 1) or NoSettings
    schedules,     \* schedules table: sequence of rows, position = rowid
    logs,          \* logs table: sequence of rows in insertion order
    dbFaultsLeft,  \* write failures the database will still raise
    portal,        \* how the remote portal behaves in this execution
    now,           \* system clock, minutes since 2026-03-07T00:00Z
    serverTz,      \* time zone of the server process (TZ)
    isInitialized, \* scheduler.ts: module flag
    timers,        \* last minute each registered cron task fired (0 = never)
    ticks,         \* every cron callback invocation, in firing order
    edits,         \* schedule updates (PATCH) accepted so far
    lockFile,      \* CLI job: pid written in the lock file, 0 = no file
    lockDir,       \* CLI job: state of LOCK_DIR
    procs,         \* CLI job: one record per process, by pid
    resolved,      \* a call of resolvePlanToPsid: its argument and its result
    scraped,       \* a call of collectFormInputs: its argument and its result
    reply,         \* settings routes: the latest request and its response
    built          \* a POST body built from scraped fields and the config

serverVars == <<runs, jars, delivered, settings, schedules, logs, dbFaultsLeft,
                portal, now, serverTz, isInitialized, timers, ticks, edits>>

cliVars == <<lockFile, lockDir, procs>>

libVars == <<resolved, scraped>>

webVars == <<reply, built>>

vars == <<serverVars, cliVars, libVars, webVars>>

---------------------------------------------------------------------------
(* Bounds of the model *)

MaxRuns == 1        \* manual plan changes per execution
MaxDbFaults == 2    \* failing addLog calls per execution
MaxTicks == 2       \* cron callbacks per execution
MaxAdvance == 2     \* minutes the clock moves per execution
MaxEdits == 1       \* accepted PATCH requests per execution
MaxProcs == 2       \* CLI job processes per execution
MaxLen == 4         \* characters of a typed plan name
MaxFields == 3      \* controls of a form
MaxRows == 2        \* rows created through POST /api/schedules
MaxTimers == 2      \* cron tasks registered per execution
MaxForms == 2       \* forms of a confirm page

---------------------------------------------------------------------------
(* Plan catalogue *)

PLAN_TO_PSID_CANONICAL ==
    << [name |-> "Standby",        psid |-> 2623],
       [name |-> "nbn100/20",      psid |-> 2613],
       [name |-> "nbn100/40",      psid |-> 2608],
       [name |-> "Home Fast",      psid |-> 2669],
       [name |-> "Home SuperFast", psid |-> 2615],
       [name |-> "Ultrafast-100",  psid |-> 2617],
       [name |-> "nbn250/100",     psid |-> 2664],
       [name |-> "Hyperfast",      psid |-> 2666],
       [name |-> "IoT 1Mbps",      psid |-> 2629],
       [name |-> "IoT 4Mbps",      psid |-> 2635] >>

Undefined == "<undefined>"
NaN == -1

\* Number(config.psid) on the plan codes used here
ToNumber(s) ==
    CASE s = "2669" -> 2669
      [] s = "2623" -> 2623
      [] s = "9999" -> 9999
      [] OTHER -> NaN

\* Object.entries(PLAN_TO_PSID_CANONICAL).find(...): first entry with that code
planNameOf(psid) ==
    LET hits == {i \in 1..Len(PLAN_TO_PSID_CANONICAL) :
                    PLAN_TO_PSID_CANONICAL[i].psid = ToNumber(psid)}
    IN  IF hits = {} THEN Undefined
        ELSE PLAN_TO_PSID_CANONICAL[CHOOSE i \in hits : \A j \in hits : i <= j].name

---------------------------------------------------------------------------
(* Configuration *)

GoodBase == "https://residential.launtel.net.au"
BadBase == "residential.launtel.net.au"

\* new URL(path, base) succeeds only for an absolute base
ValidBase(base) == base = GoodBase

NoSettings == [present |-> FALSE, base |-> "", username |-> "", password |-> "",
               userId |-> "", serviceId |-> "", avcId |-> "", locId |-> "",
               discountCode |-> "", unpause |-> "", coat |-> "", churn |-> "",
               scheduledDt |-> "", newServicePaymentOption |-> "", timeoutMs |-> 0]

SettingsRow(base, username) ==
    [NoSettings EXCEPT !.present = TRUE, !.base = base, !.username = username,
                       !.password = "secret", !.userId = "1001",
                       !.serviceId = "2002", !.avcId = "3003", !.locId = "4004",
                       !.unpause = "0", !.coat = "0", !.churn = "0",
                       !.timeoutMs = 15000]

\* the object literal handed to changePlan by both callers
ConfigOf(s, psid) ==
    [base |-> s.base, username |-> s.username, password |-> s.password,
     userId |-> s.userId, serviceId |-> s.serviceId, avcId |-> s.avcId,
     locId |-> s.locId, discountCode |-> s.discountCode, unpause |-> s.unpause,
     coat |-> s.coat, churn |-> s.churn, scheduledDt |-> s.scheduledDt,
     newServicePaymentOption |-> s.newServicePaymentOption,
     timeoutMs |-> s.timeoutMs, psid |-> psid]

---------------------------------------------------------------------------
(* Text *)

toLowerCase(s) ==
    LET lower(c) ==
            CASE c = "A" -> "a" [] c = "B" -> "b" [] c = "C" -> "c"
              [] c = "D" -> "d" [] c = "E" -> "e" [] c = "F" -> "f"
              [] c = "G" -> "g" [] c = "H" -> "h" [] c = "I" -> "i"
              [] c = "J" -> "j" [] c = "K" -> "k" [] c = "L" -> "l"
              [] c = "M" -> "m" [] c = "N" -> "n" [] c = "O" -> "o"
              [] c = "P" -> "p" [] c = "Q" -> "q" [] c = "R" -> "r"
              [] c = "S" -> "s" [] c = "T" -> "t" [] c = "U" -> "u"
              [] c = "V" -> "v" [] c = "W" -> "w" [] c = "X" -> "x"
              [] c = "Y" -> "y" [] c = "Z" -> "z" [] OTHER -> c
    IN  [i \in 1..Len(s) |-> lower(s[i])]

\* String.prototype.includes
includes(s, kw) ==
    \E i \in 1..(Len(s) - Len(kw) + 1) : SubSeq(s, i, i + Len(kw) - 1) = kw

successIndicators ==
    << <<"c", "o", "n", "f", "i", "r", "m", "e", "d">>,
       <<"s", "u", "c", "c", "e", "s", "s">>,
       <<"s", "u", "b", "m", "i", "t", "t", "e", "d">>,
       <<"t", "h", "a", "n", "k", " ", "y", "o", "u">> >>

\* variant: the indicators looked up in the body as received
isLikelySuccessCaseSensitive(html) ==
    \E k \in 1..Len(successIndicators) : includes(html, successIndicators[k])

isLikelySuccess(html) ==
    \E k \in 1..Len(successIndicators) :
        includes(toLowerCase(html), successIndicators[k])

---------------------------------------------------------------------------
(* Plan names: normalizePlanName and resolvePlanToPsid.  A string is the    *)
(* sequence of its characters.                                              *)

\* the characters of a canonical plan name
Chars(name) ==
    CASE name = "Standby" ->
        <<"S", "t", "a", "n", "d", "b", "y">>
      [] name = "nbn100/20" ->
        <<"n", "b", "n", "1", "0", "0", "/", "2", "0">>
      [] name = "nbn100/40" ->
        <<"n", "b", "n", "1", "0", "0", "/", "4", "0">>
      [] name = "Home Fast" ->
        <<"H", "o", "m", "e", " ", "F", "a", "s", "t">>
      [] name = "Home SuperFast" ->
        <<"H", "o", "m", "e", " ", "S", "u", "p", "e", "r", "F", "a", "s", "t">>
      [] name = "Ultrafast-100" ->
        <<"U", "l", "t", "r", "a", "f", "a", "s", "t", "-", "1", "0", "0">>
      [] name = "nbn250/100" ->
        <<"n", "b", "n", "2", "5", "0", "/", "1", "0", "0">>
      [] name = "Hyperfast" ->
        <<"H", "y", "p", "e", "r", "f", "a", "s", "t">>
      [] name = "IoT 1Mbps" ->
        <<"I", "o", "T", " ", "1", "M", "b", "p", "s">>
      [] name = "IoT 4Mbps" ->
        <<"I", "o", "T", " ", "4", "M", "b", "p", "s">>

PLAN_NAME_ALIASES ==
    << [alias |-> <<"h", "o", "m", "e", "f", "a", "s", "t">>,
        canonical |-> "Home Fast"],
       [alias |-> <<"h", "o", "m", "e", "-", "f", "a", "s", "t">>,
        canonical |-> "Home Fast"],
       [alias |-> <<"h", "o", "m", "e", "s", "u", "p", "e", "r", "f", "a", "s", "t">>,
        canonical |-> "Home SuperFast"],
       [alias |-> <<"h", "o", "m", "e", "-", "s", "u", "p", "e", "r", "f", "a", "s", "t">>,
        canonical |-> "Home SuperFast"],
       [alias |-> <<"u", "l", "t", "r", "a", "f", "a", "s", "t", "1", "0", "0">>,
        canonical |-> "Ultrafast-100"],
       [alias |-> <<"u", "l", "t", "r", "a", "f", "a", "s", "t", "-", "1", "0", "0">>,
        canonical |-> "Ultrafast-100"],
       [alias |-> <<"i", "o", "t", "1", "m", "b", "p", "s">>,
        canonical |-> "IoT 1Mbps"],
       [alias |-> <<"i", "o", "t", "-", "1", "m", "b", "p", "s">>,
        canonical |-> "IoT 1Mbps"],
       [alias |-> <<"i", "o", "t", "4", "m", "b", "p", "s">>,
        canonical |-> "IoT 4Mbps"],
       [alias |-> <<"i", "o", "t", "-", "4", "m", "b", "p", "s">>,
        canonical |-> "IoT 4Mbps"] >>

\* what every object inherits from Object.prototype under an all-lower-case key
FunctionObject == "<function Object>"
ObjectPrototype == "<Object.prototype>"
Inherited ==
    << [key |-> <<"c", "o", "n", "s", "t", "r", "u", "c", "t", "o", "r">>,
        value |-> FunctionObject],
       [key |-> <<"_", "_", "p", "r", "o", "t", "o", "_", "_">>,
        value |-> ObjectPrototype] >>

\* inputs that name no plan
UnknownPlans ==
    { <<"t", "o", "t", "a", "l", "l", "y", "-", "u", "n", "k", "n", "o", "w", "n", "-", "p", "l", "a", "n">>,
      <<"g", "i", "g", "a", "b", "i", "t">>,
      <<"c", "o", "n", "s", "t", "r", "u", "c", "t", "o", "r">>,
      <<"_", "_", "p", "r", "o", "t", "o", "_", "_">> }

toUpperCase(s) ==
    LET upper(c) ==
            CASE c = "a" -> "A" [] c = "b" -> "B" [] c = "c" -> "C"
              [] c = "d" -> "D" [] c = "e" -> "E" [] c = "f" -> "F"
              [] c = "g" -> "G" [] c = "h" -> "H" [] c = "i" -> "I"
              [] c = "j" -> "J" [] c = "k" -> "K" [] c = "l" -> "L"
              [] c = "m" -> "M" [] c = "n" -> "N" [] c = "o" -> "O"
              [] c = "p" -> "P" [] c = "q" -> "Q" [] c = "r" -> "R"
              [] c = "s" -> "S" [] c = "t" -> "T" [] c = "u" -> "U"
              [] c = "v" -> "V" [] c = "w" -> "W" [] c = "x" -> "X"
              [] c = "y" -> "Y" [] c = "z" -> "Z" [] OTHER -> c
    IN  [i \in 1..Len(s) |-> upper(s[i])]

\* what \s matches and what trim() strips
WhiteSpace == {" ", "\t"}

RECURSIVE leading(_, _)
\* length of the longest prefix of s made of characters of the set cs
leading(s, cs) ==
    IF s # <<>> /\ Head(s) \in cs THEN 1 + leading(Tail(s), cs) ELSE 0

drop(s, n) == SubSeq(s, n + 1, Len(s))

reverse(s) == [i \in 1..Len(s) |-> s[Len(s) + 1 - i]]

\* String.prototype.trim
trim(s) ==
    LET rest == drop(s, leading(s, WhiteSpace))
    IN  SubSeq(rest, 1, Len(rest) - leading(reverse(rest), WhiteSpace))

RECURSIVE replaceRuns(_, _, _)
\* s.replace(/[cs]+/g, by): every maximal run of characters of cs becomes by
replaceRuns(s, cs, by) ==
    IF s = <<>> THEN <<>>
    ELSE LET k == leading(s, cs)
         IN  IF k > 0 THEN by \o replaceRuns(drop(s, k), cs, by)
             ELSE <<Head(s)>> \o replaceRuns(Tail(s), cs, by)

RECURSIVE replaceAroundHyphens(_)
\* s.replace(/\s*-\s*/g, "-"): a match starts where white space, possibly
\* none, is directly followed by a hyphen, and takes the white space after it
replaceAroundHyphens(s) ==
    IF s = <<>> THEN <<>>
    ELSE LET k == leading(s, WhiteSpace)
         IN  IF k < Len(s) /\ s[k + 1] = "-"
             THEN LET rest == drop(s, k + 1)
                  IN  <<"-">> \o
                      replaceAroundHyphens(drop(rest, leading(rest, WhiteSpace)))
             ELSE <<Head(s)>> \o replaceAroundHyphens(Tail(s))

\* variant: runs of hyphens collapsed before the white space around hyphens
normalizePlanNameHyphensFirst(s) ==
    replaceRuns(
        replaceAroundHyphens(
            replaceRuns(
                replaceRuns(toLowerCase(trim(s)), WhiteSpace, <<" ">>),
                {"-"}, <<"-">>)),
        WhiteSpace, <<>>)

\* variant: letter case kept
normalizePlanNameKeepCase(s) ==
    replaceRuns(
        replaceRuns(
            replaceAroundHyphens(
                replaceRuns(trim(s), WhiteSpace, <<" ">>)),
            WhiteSpace, <<>>),
        {"-"}, <<"-">>)

normalizePlanName(s) ==
    replaceRuns(
        replaceRuns(
            replaceAroundHyphens(
                replaceRuns(toLowerCase(trim(s)), WhiteSpace, <<" ">>)),
            WhiteSpace, <<>>),
        {"-"}, <<"-">>)

\* the entry the table owns under a key: the table is filled with the
\* normalized canonical names and then with the aliases, a later write
\* replacing an earlier one
ownEntry(norm) ==
    LET aliases == {i \in 1..Len(PLAN_NAME_ALIASES) :
                       PLAN_NAME_ALIASES[i].alias = norm}
        names == {i \in 1..Len(PLAN_TO_PSID_CANONICAL) :
                     normalizePlanName(Chars(PLAN_TO_PSID_CANONICAL[i].name)) = norm}
    IN  IF aliases # {}
        THEN PLAN_NAME_ALIASES[CHOOSE i \in aliases : \A j \in aliases : j <= i].canonical
        ELSE IF names # {}
        THEN PLAN_TO_PSID_CANONICAL[CHOOSE i \in names : \A j \in names : j <= i].name
        ELSE Undefined

\* NORMALIZED_TO_CANONICAL[norm]: the table is a plain object, so a key it
\* does not own is looked up in Object.prototype
NORMALIZED_TO_CANONICAL(norm) ==
    LET own == ownEntry(norm)
        up == {i \in 1..Len(Inherited) : Inherited[i].key = norm}
    IN  IF own # Undefined THEN own
        ELSE IF up # {} THEN Inherited[CHOOSE i \in up : TRUE].value
        ELSE Undefined

\* undefined where a plan code is expected
NoCode == 0

\* PLAN_TO_PSID_CANONICAL[canonical]
planCode(canonical) ==
    LET hits == {i \in 1..Len(PLAN_TO_PSID_CANONICAL) :
                    PLAN_TO_PSID_CANONICAL[i].name = canonical}
    IN  IF hits = {} THEN NoCode
        ELSE PLAN_TO_PSID_CANONICAL[CHOOSE i \in hits : TRUE].psid

\* the null of resolvePlanToPsid
NotFound == [found |-> FALSE, psid |-> NoCode, canonical |-> Undefined]

resolvePlanToPsid(planInput) ==
    LET norm == normalizePlanName(planInput)
        canonical == NORMALIZED_TO_CANONICAL(norm)
    IN  IF canonical = Undefined THEN NotFound
        ELSE [found |-> TRUE, psid |-> planCode(canonical), canonical |-> canonical]

\* plan names as a user may type them
Alphabet == {"a", "A", "-", " ", "\t"}

ShortInputs == UNION {[1..n -> Alphabet] : n \in 0..MaxLen}

RECURSIVE spaced(_)
\* white space put after every character
spaced(s) ==
    IF s = <<>> THEN <<>> ELSE <<Head(s), " ", "\t">> \o spaced(Tail(s))

Spellings(s) ==
    { s, toUpperCase(s), toLowerCase(s), <<" ", "\t">> \o s \o <<"\t", " ">>,
      spaced(toUpperCase(s)) }

ListedNames ==
    {Chars(PLAN_TO_PSID_CANONICAL[i].name) : i \in 1..Len(PLAN_TO_PSID_CANONICAL)}
        \cup {PLAN_NAME_ALIASES[i].alias : i \in 1..Len(PLAN_NAME_ALIASES)}

PlanInputs ==
    ShortInputs \cup UNION {Spellings(s) : s \in ListedNames \cup UnknownPlans}

---------------------------------------------------------------------------
(* Form fields: collectFormInputs.  A form is the sequence of its named or   *)
(* unnamed controls in document order.                                       *)

\* an attribute the element does not have
NoAttr == "<no attribute>"

Option(value, text, selected) ==
    [value |-> value, text |-> text, selected |-> selected]

Control(tag, name, type, checked, value, text, options) ==
    [tag |-> tag, name |-> name, type |-> type, checked |-> checked,
     value |-> value, text |-> text, options |-> options]

Input(name, type, checked, value) ==
    Control("input", name, type, checked, value, "", <<>>)

\* the controls a portal page may carry
Controls ==
    { Input("a", "checkbox", TRUE, "1"),
      Input("b", "checkbox", FALSE, NoAttr),
      Input("b", "CHECKBOX", TRUE, NoAttr),
      Input("a", "radio", FALSE, "2"),
      Input("c", "text", FALSE, "hello"),
      Input("c", NoAttr, FALSE, NoAttr),
      Input("", "text", FALSE, "x"),
      Input(NoAttr, "hidden", FALSE, "x"),
      Input("__proto__", "hidden", FALSE, "x"),
      Control("select", "a", NoAttr, FALSE, NoAttr, "",
              <<Option("8", "eight", FALSE), Option(NoAttr, "nine", TRUE)>>),
      Control("select", "b", NoAttr, FALSE, NoAttr, "",
              <<Option("7", "seven", FALSE)>>),
      Control("textarea", "c", NoAttr, FALSE, NoAttr, "note", <<>>) }

Forms == UNION {[1..n -> Controls] : n \in 0..MaxFields}

\* (attr("type") || "text").toLowerCase() on the types used here
typeOf(el) ==
    CASE el.type = NoAttr -> "text"
      [] el.type = "CHECKBOX" -> "checkbox"
      [] el.type = "RADIO" -> "radio"
      [] OTHER -> el.type

\* a ?? b
orElse(a, b) == IF a = NoAttr THEN b ELSE a

\* data[name] = value on a plain object: the key __proto__ is the accessor of
\* Object.prototype, which ignores a string
put(data, name, value) ==
    IF name = "__proto__" THEN data
    ELSE [k \in DOMAIN data \cup {name} |-> IF k = name THEN value ELSE data[k]]

\* body of the callback over input[name]
inputEntry(data, el) ==
    IF el.name = NoAttr \/ el.name = "" THEN data
    ELSE IF typeOf(el) \in {"checkbox", "radio"}
    THEN IF el.checked THEN put(data, el.name, orElse(el.value, "on")) ELSE data
    ELSE put(data, el.name, orElse(el.value, ""))

\* body of the callback over select[name]
selectEntry(data, el) ==
    IF el.name = NoAttr \/ el.name = "" THEN data
    ELSE LET selected == {i \in 1..Len(el.options) : el.options[i].selected}
             first == IF selected # {}
                      THEN CHOOSE i \in selected : \A j \in selected : i <= j
                      ELSE 1
         IN  IF el.options = <<>> THEN data
             ELSE put(data, el.name,
                      orElse(el.options[first].value, el.options[first].text))

\* body of the callback over textarea[name]
textareaEntry(data, el) ==
    IF el.name = NoAttr \/ el.name = "" THEN data
    ELSE put(data, el.name, el.text)

controlEntry(data, el, tag) ==
    IF el.tag # tag THEN data
    ELSE CASE tag = "input" -> inputEntry(data, el)
           [] tag = "select" -> selectEntry(data, el)
           [] tag = "textarea" -> textareaEntry(data, el)

RECURSIVE each(_, _, _)
\* $(form).find(tag + "[name]").each(...): the controls of one tag in document
\* order
each(data, form, tag) ==
    IF form = <<>> THEN data
    ELSE each(controlEntry(data, Head(form), tag), Tail(form), tag)

\* const data = {}
NoFields == [k \in {} |-> ""]

collectFormInputs(form) ==
    each(each(each(NoFields, form, "input"), form, "select"), form, "textarea")

---------------------------------------------------------------------------
(* The two POST bodies: what login() and confirmService() do between       *)
(* cheerio.load and client.post                                             *)

\* OWN PROPERTY test: Object.prototype.hasOwnProperty.call(fields, n)
hasOwnProperty(fields, n) == n \in DOMAIN fields

\* [...].find(n => hasOwnProperty(fields, n)) || fallback
firstPresent(names, fields, fallback) ==
    LET hits == {i \in 1..Len(names) : hasOwnProperty(fields, names[i])}
    IN  IF hits = {} THEN fallback
        ELSE names[CHOOSE i \in hits : \A j \in hits : i <= j]

\* new URLSearchParams() and body.set(k, v) for every entry of fields: the
\* pairs of the body
URLSearchParams(fields) == {<<k, fields[k]>> : k \in DOMAIN fields}

\* variant: the credentials always sent as username and password
loginFieldsFixedNames(fields, config) ==
    put(put(fields, "username", config.username), "password", config.password)

\* login(): the scraped fields with the credentials put in
loginFields(fields, config) ==
    LET userField == firstPresent(<<"username", "email", "user", "login">>,
                                  fields, "username")
        passField == firstPresent(<<"password", "passwd", "pass">>,
                                  fields, "password")
    IN  put(put(fields, userField, config.username), passField, config.password)

\* a ?? b on a field that may be missing
fieldOr(fields, k, b) == IF k \in DOMAIN fields THEN fields[k] ELSE b

RECURSIVE assignAll(_, _)
\* for (const [k, v] of Object.entries(overrides)) fields[k] = v
assignAll(fields, pairs) ==
    IF pairs = <<>> THEN fields
    ELSE assignAll(put(fields, Head(pairs)[1], Head(pairs)[2]), Tail(pairs))

\* variant: a scraped psid kept
confirmFieldsKeepScrapedPsid(fields, config) ==
    LET overrides ==
            << <<"ntdreplace", fieldOr(fields, "ntdreplace", "0")>>,
               <<"ntdupgrade", fieldOr(fields, "ntdupgrade", "0")>>,
               <<"userid", config.userId>>,
               <<"psid", fieldOr(fields, "psid", config.psid)>>,
               <<"locid", config.locId>>,
               <<"avcid", config.avcId>>,
               <<"unpause", IF config.unpause = "" THEN "0" ELSE config.unpause>>,
               <<"scheduleddt", config.scheduledDt>>,
               <<"coat", IF config.coat = "" THEN "0" ELSE config.coat>>,
               <<"new_service_payment_option", config.newServicePaymentOption>> >>
        set == assignAll(fields, overrides)
    IN  IF "discount_code" \in DOMAIN set \/ config.discountCode # ""
        THEN put(set, "discount_code", config.discountCode)
        ELSE set

\* confirmService(): the scraped fields with the overrides and the discount code
confirmFields(fields, config) ==
    LET overrides ==
            << <<"ntdreplace", fieldOr(fields, "ntdreplace", "0")>>,
               <<"ntdupgrade", fieldOr(fields, "ntdupgrade", "0")>>,
               <<"userid", config.userId>>,
               <<"psid", config.psid>>,
               <<"locid", config.locId>>,
               <<"avcid", config.avcId>>,
               <<"unpause", IF config.unpause = "" THEN "0" ELSE config.unpause>>,
               <<"scheduleddt", config.scheduledDt>>,
               <<"coat", IF config.coat = "" THEN "0" ELSE config.coat>>,
               <<"new_service_payment_option", config.newServicePaymentOption>> >>
        set == assignAll(fields, overrides)
    IN  IF "discount_code" \in DOMAIN set \/ config.discountCode # ""
        THEN put(set, "discount_code", config.discountCode)
        ELSE set

\* a form element of the confirm page: its name and action attributes, whether
\* it holds an input named psid, and what collectFormInputs gives for it
FormEl(name, action, psidInput, fields) ==
    [name |-> name, action |-> action, psidInput |-> psidInput, fields |-> fields]

\* positions of the forms a selector matches, in document order
namedForms(forms) ==
    {i \in 1..Len(forms) : forms[i].name = "confirm_service"}
actionForms(forms) ==
    {i \in 1..Len(forms) :
        includes(forms[i].action,
                 <<"/", "c", "o", "n", "f", "i", "r", "m", "_",
                   "s", "e", "r", "v", "i", "c", "e">>)}
psidForms(forms) == {i \in 1..Len(forms) : forms[i].psidInput}

\* .first(): the first position of a set, 0 when the selection is empty
firstOf(hits) == IF hits = {} THEN 0 ELSE CHOOSE i \in hits : \A j \in hits : i <= j

\* variant: the first form any of the three selectors matches
chooseConfirmFormInDocumentOrder(forms) ==
    firstOf(namedForms(forms) \cup actionForms(forms) \cup psidForms(forms))

\* the three selectors of confirmService, tried in turn
chooseConfirmForm(forms) ==
    IF namedForms(forms) # {} THEN firstOf(namedForms(forms))
    ELSE IF actionForms(forms) # {} THEN firstOf(actionForms(forms))
    ELSE firstOf(psidForms(forms))

---------------------------------------------------------------------------
(* What the portal can answer *)

\* response bodies of the confirm POST (String(postResp.data || ""))
Bodies ==
    { <<>>,
      <<"P", "l", "e", "a", "s", "e", " ", "w", "a", "i", "t">>,
      <<"S", "u", "b", "m", "i", "t", "t", "e", "d">>,
      <<"C", "O", "N", "F", "I", "R", "M", "E", "D">>,
      <<"T", "h", "a", "n", "k", " ", "Y", "o", "u">>,
      <<"t", "h", "a", "n", "k", "-", "y", "o", "u">>,
      <<"U", "n", "s", "u", "c", "c", "e", "s", "s", "f", "u", "l">>,
      <<"f", "a", "i", "l", "e", "d">> }

\* what cheerio can find in a page, as far as the engine looks
NoPage == [postForm |-> FALSE, passwordInput |-> FALSE, loginAction |-> FALSE,
           loginTitle |-> FALSE, namedForm |-> FALSE, actionForm |-> FALSE,
           psidForm |-> FALSE, body |-> <<>>]

LoginPages == {[NoPage EXCEPT !.postForm = f] : f \in BOOLEAN}

ConfirmPages ==
    {[NoPage EXCEPT !.passwordInput = a, !.loginAction = b, !.loginTitle = c,
                    !.namedForm = d, !.actionForm = e, !.psidForm = f] :
        a \in BOOLEAN, b \in BOOLEAN, c \in BOOLEAN,
        d \in BOOLEAN, e \in BOOLEAN, f \in BOOLEAN}

ResultPages == {[NoPage EXCEPT !.body = b] : b \in Bodies}

Statuses == {200, 400, 503}

\* axios rejects (no response): timeout, connection failure
TransportErrors == {"timeout of 15000ms exceeded"}

Response(status, page) == [err |-> "", status |-> status, page |-> page]
Rejected(err) == [err |-> err, status |-> 0, page |-> NoPage]

PagesFor(pc) ==
    CASE pc = "loginGet" -> LoginPages
      [] pc = "loginPost" -> {NoPage}
      [] pc = "confirmGet" -> ConfirmPages
      [] pc = "confirmPost" -> ResultPages

HappyPage(pc) ==
    CASE pc = "loginGet" -> [NoPage EXCEPT !.postForm = TRUE]
      [] pc = "loginPost" -> NoPage
      [] pc = "confirmGet" -> [NoPage EXCEPT !.namedForm = TRUE]
      [] pc = "confirmPost" -> [NoPage EXCEPT !.body = <<"S", "u", "b", "m", "i", "t", "t", "e", "d">>]

\* outcomes of the request a run waits for at pc
Outcomes(pc) ==
    CASE portal = "any" ->
            {Response(200, p) : p \in PagesFor(pc)}
                \cup {Response(s, p) : s \in Statuses \ {200}, p \in {NoPage, HappyPage(pc)}}
                \cup {Rejected(e) : e \in TransportErrors}
      [] portal = "up" -> {Response(200, HappyPage(pc))}
      [] portal = "down" -> {Response(503, NoPage)}

NoDelivery == [run |-> 0, kind |-> "", resp |-> Rejected("")]

---------------------------------------------------------------------------
(* changePlan and its two steps *)

Msg(text) == [text |-> text, code |-> 0]
MsgStatus(text, status) == [text |-> text, code |-> status]
NoError == Msg("")

NoResult == [success |-> FALSE, message |-> NoError, planName |-> Undefined,
             psid |-> Undefined, timestamp |-> 0]

\* variant: one module-level jar handed to every client
createHttpClientShared(made) == 1

\* new CookieJar() inside createHttpClient: a fresh jar for every client
createHttpClient(made) == made + 1

\* changePlan up to its first await on the network
NewRun(caller, entry, config, jar, at) ==
    [caller |-> caller, entry |-> entry, config |-> config, timestamp |-> at,
     planName |-> planNameOf(config.psid), jar |-> jar, pc |-> "start",
     reqs |-> <<>>, error |-> NoError,
     returned |-> 0, threw |-> FALSE, result |-> NoResult]

\* client.get / client.post: the request goes out with the client's own jar
Issue(run, kind) ==
    [run EXCEPT !.pc = kind,
                !.reqs = Append(@, [kind |-> kind, jar |-> run.jar, status |-> 0,
                                    page |-> NoPage])]

\* the response object (getResp / postResp) of the request just answered
Answered(run, resp) ==
    [run EXCEPT !.reqs[Len(run.reqs)].status = resp.status,
                !.reqs[Len(run.reqs)].page = resp.page]

\* the parsed pages are locals of login / confirmService: gone on return
Forget(reqs) == [i \in 1..Len(reqs) |-> [reqs[i] EXCEPT !.page = NoPage]]

\* variant: changePlan without its catch clause, the error leaves the function
changePlanRethrow(run, error) ==
    [run EXCEPT !.pc = "done", !.reqs = Forget(@), !.threw = TRUE]

\* the catch clause of changePlan
changePlanCatch(run, error) ==
    [run EXCEPT !.pc = "done", !.reqs = Forget(@), !.returned = @ + 1,
                !.result = [success |-> FALSE, message |-> error,
                            planName |-> Undefined, psid |-> Undefined,
                            timestamp |-> run.timestamp]]

\* variant: the result stamped when the run returns
changePlanReturnStampedLate(run) ==
    [run EXCEPT !.pc = "done", !.reqs = Forget(@), !.returned = @ + 1,
                !.result = [success |-> TRUE,
                            message |-> Msg("Plan changed successfully"),
                            planName |-> run.planName, psid |-> run.config.psid,
                            timestamp |-> now]]

\* the return statement at the end of the try block
changePlanReturn(run) ==
    [run EXCEPT !.pc = "done", !.reqs = Forget(@), !.returned = @ + 1,
                !.result = [success |-> TRUE,
                            message |-> Msg("Plan changed successfully"),
                            planName |-> run.planName, psid |-> run.config.psid,
                            timestamp |-> run.timestamp]]

\* throw new Error(...) inside login / confirmService, or a rejected request
Throw(run, error) == changePlanCatch([run EXCEPT !.error = error], error)

\* variant: the status test off by one
failedAbove400(status) == status > 400

\* getResp.status >= 400 / postResp.status >= 400
failed(status) == status >= 400

looksLikeLogin(page) ==
    page.passwordInput \/ page.loginAction \/ page.loginTitle

\* the three selectors, first match wins
findConfirmForm(page) ==
    IF page.namedForm THEN "name"
    ELSE IF page.actionForm THEN "action"
    ELSE IF page.psidForm THEN "psid"
    ELSE "none"

\* variant: login() posting the credentials whether or not a form was found
loginGetStepAnyPage(run, resp) ==
    LET r == Answered(run, resp) IN
    IF resp.err # "" THEN Throw(r, Msg(resp.err))
    ELSE IF failed(resp.status)
        THEN Throw(r, MsgStatus("Login page GET failed with status", resp.status))
    ELSE Issue(r, "loginPost")

\* login(): the continuation of client.get(loginUrl)
loginGetStep(run, resp) ==
    LET r == Answered(run, resp) IN
    IF resp.err # "" THEN Throw(r, Msg(resp.err))
    ELSE IF failed(resp.status)
        THEN Throw(r, MsgStatus("Login page GET failed with status", resp.status))
    ELSE IF ~resp.page.postForm
        THEN Throw(r, Msg("Login form not found on the page"))
    ELSE Issue(r, "loginPost")

\* variant: login() sending its POST again after a transport error
loginPostStepRetry(run, resp) ==
    LET r == Answered(run, resp) IN
    IF resp.err # "" THEN Issue(r, "loginPost")
    ELSE IF failed(resp.status)
        THEN Throw(r, MsgStatus("Login POST failed with status", resp.status))
    ELSE Issue(r, "confirmGet")

\* login(): the continuation of client.post(action, ...); then confirmService()
\* up to its client.get
loginPostStep(run, resp) ==
    LET r == Answered(run, resp) IN
    IF resp.err # "" THEN Throw(r, Msg(resp.err))
    ELSE IF failed(resp.status)
        THEN Throw(r, MsgStatus("Login POST failed with status", resp.status))
    ELSE Issue(r, "confirmGet")

\* variant: confirmService() searching the form before looking for a login page
confirmGetStepFormFirst(run, resp) ==
    LET r == Answered(run, resp) IN
    IF resp.err # "" THEN Throw(r, Msg(resp.err))
    ELSE IF failed(resp.status)
        THEN Throw(r, MsgStatus("Confirm page GET failed with status", resp.status))
    ELSE IF findConfirmForm(resp.page) # "none"
        THEN Issue(r, "confirmPost")
    ELSE IF looksLikeLogin(resp.page)
        THEN Throw(r, Msg("Not authenticated on confirm page (login detected)"))
    ELSE Throw(r, Msg("Confirm form not found on the page"))

\* confirmService(): the continuation of client.get(confirmGetPath, ...)
confirmGetStep(run, resp) ==
    LET r == Answered(run, resp) IN
    IF resp.err # "" THEN Throw(r, Msg(resp.err))
    ELSE IF failed(resp.status)
        THEN Throw(r, MsgStatus("Confirm page GET failed with status", resp.status))
    ELSE IF looksLikeLogin(resp.page)
        THEN Throw(r, Msg("Not authenticated on confirm page (login detected)"))
    ELSE IF findConfirmForm(resp.page) = "none"
        THEN Throw(r, Msg("Confirm form not found on the page"))
    ELSE Issue(r, "confirmPost")

\* confirmService(): the continuation of client.post(action, ...)
confirmPostStep(run, resp) ==
    LET r == Answered(run, resp) IN
    IF resp.err # "" THEN Throw(r, Msg(resp.err))
    ELSE IF failed(resp.status)
        THEN Throw(r, MsgStatus("Confirm form POST failed with status", resp.status))
    ELSE IF ~isLikelySuccess(resp.page.body)
        THEN Throw(r, Msg("Plan change confirmation unclear - success indicators not found in response"))
    ELSE changePlanReturn(r)

\* what the awaited request of a run can come back with; a base address that
\* is no absolute URL makes axios reject before anything is sent
OutcomesOf(run) ==
    IF ValidBase(run.config.base) THEN Outcomes(run.pc)
    ELSE {Rejected("Invalid URL")}

---------------------------------------------------------------------------
(* Database (lib/db) *)

Null == "<null>"
OrNull(v) == IF v = Undefined \/ v = "" THEN Null ELSE v

\* message column: the scheduler prefixes the engine's message
LogMessage(label, tz, m) ==
    [label |-> label, tz |-> tz, text |-> m.text, code |-> m.code]

\* the row INSERTed by addLog
LogRow(success, message, planName, psid, timestamp) ==
    [success |-> success, message |-> message, planName |-> OrNull(planName),
     psid |-> OrNull(psid), timestamp |-> timestamp]

DbError == Msg("database is locked")

\* a row of the schedules table.  A column declared INTEGER keeps a number
\* with a fraction as it is given: hour and minute are the whole part of the
\* stored number, hourTenths and minuteTenths its first decimal.
StoredRow(id, planName, psid, hour, hourTenths, minute, minuteTenths, timezone, enabled) ==
    [id |-> id, planName |-> planName, psid |-> psid, hour |-> hour,
     hourTenths |-> hourTenths, minute |-> minute,
     minuteTenths |-> minuteTenths, timezone |-> timezone, enabled |-> enabled]

\* a row whose hour and minute are whole numbers
ScheduleRow(id, planName, psid, hour, minute, timezone, enabled) ==
    StoredRow(id, planName, psid, hour, 0, minute, 0, timezone, enabled)

\* SELECT * FROM schedules WHERE enabled = 1 ORDER BY hour, minute
\* (rows with equal hour and minute in rowid order)
RECURSIVE SortRows(_)
SortRows(rows) ==
    IF rows = {} THEN <<>>
    ELSE LET first == CHOOSE r \in rows : \A q \in rows :
                          \/ r.hour < q.hour
                          \/ r.hour = q.hour /\ r.minute < q.minute
                          \/ r.hour = q.hour /\ r.minute = q.minute /\ r.id <= q.id
         IN  <<first>> \o SortRows(rows \ {first})

getEnabledSchedules ==
    SortRows({schedules[i] : i \in {j \in 1..Len(schedules) : schedules[j].enabled}})

getSettings == settings

---------------------------------------------------------------------------
(* Clock and time zones.  Instants and wall-clock readings are minutes     *)
(* counted from 2026-03-07 00:00; daylight saving time starts in           *)
(* America/New_York on 2026-03-08 at 07:00Z (02:00 EST becomes 03:00 EDT). *)

MinutesPerHour == 60
HoursPerDay == 24
NewYorkStandard == -300
NewYorkDaylight == -240
NewYorkDstStart == 1860
BrisbaneOffset == 600

Zones == {"UTC", "America/New_York", "Australia/Brisbane"}

\* Intl.DateTimeFormat(undefined, {timeZone}) accepts the zone
isValidTimezone(tz) == tz \in Zones

\* UTC offset in force in zone tz at instant t
Offset(tz, t) ==
    CASE tz = "America/New_York" ->
            IF t < NewYorkDstStart THEN NewYorkStandard ELSE NewYorkDaylight
      [] tz = "Australia/Brisbane" -> BrisbaneOffset
      [] OTHER -> 0

\* offset in force before the zone's first transition
OffsetBefore(tz) ==
    CASE tz = "America/New_York" -> NewYorkStandard
      [] tz = "Australia/Brisbane" -> BrisbaneOffset
      [] OTHER -> 0

OffsetsOf(tz) ==
    IF tz = "America/New_York" THEN {NewYorkStandard, NewYorkDaylight}
    ELSE {OffsetBefore(tz)}

\* now.toLocaleString('en-US', {timeZone}): the date and time of day that the
\* clocks of zone tz show at instant t
toLocaleString(t, tz) == t + Offset(tz, t)

\* new Date(text): the text read as a wall-clock reading of the process's own
\* zone.  A reading its clocks skip is taken with the offset before the
\* transition; a reading they show twice is the earlier instant.
parseLocal(wall, tz) ==
    LET hits == {u \in {wall - o : o \in OffsetsOf(tz)} : u + Offset(tz, u) = wall}
    IN  IF hits = {} THEN wall - OffsetBefore(tz)
        ELSE CHOOSE u \in hits : \A v \in hits : u <= v

\* Date.prototype.getHours / getMinutes: always in the process's own zone
getHours(t, tz) == ((t + Offset(tz, t)) \div MinutesPerHour) % HoursPerDay
getMinutes(t, tz) == (t + Offset(tz, t)) % MinutesPerHour

\* the time of day the clocks of zone tz show at instant t
WallHour(t, tz) == (toLocaleString(t, tz) \div MinutesPerHour) % HoursPerDay
WallMinute(t, tz) == toLocaleString(t, tz) % MinutesPerHour

---------------------------------------------------------------------------
(* Scheduler (lib/scheduler.ts): the body of the cron callback *)

scheduleTimezone(schedule) ==
    IF schedule.timezone = "" THEN "UTC" ELSE schedule.timezone

nowInScheduleTimezone(at, schedule) ==
    parseLocal(toLocaleString(at, scheduleTimezone(schedule)), serverTz)

\* variant: an entry whose time of day has passed compares as due
matchesOrLater(schedule, at) ==
    LET hour == getHours(nowInScheduleTimezone(at, schedule), serverTz)
        minute == getMinutes(nowInScheduleTimezone(at, schedule), serverTz)
    IN  /\ schedule.hourTenths = 0 /\ schedule.minuteTenths = 0
        /\ \/ schedule.hour < hour
           \/ schedule.hour = hour /\ schedule.minute <= minute

\* schedule.hour === currentHour && schedule.minute === currentMinute
matches(schedule, at) ==
    /\ schedule.hour = getHours(nowInScheduleTimezone(at, schedule), serverTz)
    /\ schedule.hourTenths = 0
    /\ schedule.minute = getMinutes(nowInScheduleTimezone(at, schedule), serverTz)
    /\ schedule.minuteTenths = 0

\* position of the first entry after position i whose time matches, or 0
\* variant: the entries compared with the clock at the time they are reached
nextMatchAtNow(tick, i) ==
    LET hits == {j \in (i + 1)..Len(tick.entries) : matches(tick.entries[j], now)}
    IN  IF hits = {} THEN 0 ELSE CHOOSE j \in hits : \A k \in hits : j <= k

\* the next entry after position i that the if statement of the loop takes
nextMatch(tick, i) ==
    LET hits == {j \in (i + 1)..Len(tick.entries) : matches(tick.entries[j], tick.at)}
    IN  IF hits = {} THEN 0 ELSE CHOOSE j \in hits : \A k \in hits : j <= k

NewTick(timer, at, entries, s) ==
    [timer |-> timer, at |-> at, entries |-> entries, settings |-> s,
     i |-> 0, pc |-> "loop", aborted |-> FALSE]

\* the for loop from the entry after position i: either it reaches a matching
\* entry and calls changePlan, which suspends on its login GET, or it ends
LoopFrom(t, tick, i, runsNow, ticksNow) ==
    LET j == nextMatch(tick, i) IN
    IF j = 0
    THEN /\ ticks' = [ticksNow EXCEPT ![t] = [tick EXCEPT !.pc = "done"]]
         /\ runs' = runsNow
         /\ jars' = jars
    ELSE /\ ticks' = [ticksNow EXCEPT ![t] = [tick EXCEPT !.pc = "run", !.i = j]]
         /\ runs' = Append(runsNow,
                 Issue(NewRun(t, tick.entries[j].id,
                              ConfigOf(tick.settings, tick.entries[j].psid),
                              createHttpClient(jars), now),
                       "loginGet"))
         /\ jars' = jars + 1

\* number of addLog calls that fail in one turn (the call in the try block,
\* then the call in the catch block)
FaultChoices == 0..(IF dbFaultsLeft < 2 THEN dbFaultsLeft ELSE 2)

\* variant: the cron callback going to the next entry without logging the
\* outcome
TickContinueUnlogged(r, run) ==
    /\ UNCHANGED <<dbFaultsLeft, logs>>
    /\ LoopFrom(run.caller, ticks[run.caller], ticks[run.caller].i,
                [runs EXCEPT ![r] = run], ticks)

\* what follows "await changePlan(...)" in the cron callback: addLog, and on
\* an exception the catch block's addLog; an exception thrown there leaves the
\* for loop and is logged by the outer catch
TickContinue(r, run) ==
    LET t == run.caller
        tick == ticks[t]
        schedule == tick.entries[tick.i]
        tz == scheduleTimezone(schedule)
        done == [runs EXCEPT ![r] = run]
    IN  \E f \in FaultChoices :
          /\ dbFaultsLeft' = dbFaultsLeft - f
          /\ logs' = CASE f = 0 ->
                            Append(logs, LogRow(run.result.success,
                                LogMessage("Scheduled", tz, run.result.message),
                                run.result.planName, run.result.psid,
                                run.result.timestamp))
                       [] f = 1 ->
                            Append(logs, LogRow(FALSE,
                                LogMessage("Scheduled task failed", tz, DbError),
                                schedule.planName, schedule.psid, now))
                       [] OTHER -> logs
          /\ IF f = 2
             THEN /\ ticks' = [ticks EXCEPT ![t].pc = "done", ![t].aborted = TRUE]
                  /\ runs' = done
                  /\ jars' = jars
             ELSE LoopFrom(t, tick, tick.i, done, ticks)

\* what follows "await changePlan(...)" in POST /api/plans/change
ManualContinue(r, run) ==
    \E f \in FaultChoices :
      /\ dbFaultsLeft' = dbFaultsLeft - f
      /\ logs' = CASE f = 0 ->
                        Append(logs, LogRow(run.result.success,
                            LogMessage("", "", run.result.message),
                            run.result.planName, run.result.psid,
                            run.result.timestamp))
                   [] f = 1 ->
                        Append(logs, LogRow(FALSE, LogMessage("", "", DbError),
                                            Undefined, Undefined, now))
                   [] OTHER -> logs
      /\ runs' = [runs EXCEPT ![r] = run]
      /\ UNCHANGED <<jars, ticks>>

\* the turn in which the request that run r awaits comes back with resp and
\* takes the run to its next await or to its end
Turn(r, resp, run) ==
    /\ UNCHANGED <<cliVars, libVars, webVars>>
    /\ delivered' = [run |-> r, kind |-> runs[r].pc, resp |-> resp]
    /\ IF run.pc # "done"
       THEN /\ runs' = [runs EXCEPT ![r] = run]
            /\ UNCHANGED <<jars, logs, dbFaultsLeft, ticks>>
       ELSE IF run.caller = 0 THEN ManualContinue(r, run)
       ELSE TickContinue(r, run)
    /\ UNCHANGED <<settings, schedules, portal, now, serverTz, isInitialized,
                   timers, edits>>

---------------------------------------------------------------------------
(* Actions *)

PsidInputs == {"2669", "9999"}

\* POST /api/plans/change with body {psid}
ManualChange(psid) ==
    /\ UNCHANGED <<cliVars, libVars, webVars>>
    /\ Cardinality({r \in 1..Len(runs) : runs[r].caller = 0}) < MaxRuns
    /\ getSettings.present
    /\ runs' = Append(runs,
            Issue(NewRun(0, 0, ConfigOf(getSettings, psid),
                         createHttpClient(jars), now),
                  "loginGet"))
    /\ jars' = jars + 1
    /\ delivered' = NoDelivery
    /\ UNCHANGED <<settings, schedules, logs, dbFaultsLeft, portal, now,
                   serverTz, isInitialized, timers, ticks, edits>>

LoginGetResponse(r) ==
    /\ runs[r].pc = "loginGet"
    /\ \E resp \in OutcomesOf(runs[r]) : Turn(r, resp, loginGetStep(runs[r], resp))

LoginPostResponse(r) ==
    /\ runs[r].pc = "loginPost"
    /\ \E resp \in OutcomesOf(runs[r]) : Turn(r, resp, loginPostStep(runs[r], resp))

ConfirmGetResponse(r) ==
    /\ runs[r].pc = "confirmGet"
    /\ \E resp \in OutcomesOf(runs[r]) : Turn(r, resp, confirmGetStep(runs[r], resp))

ConfirmPostResponse(r) ==
    /\ runs[r].pc = "confirmPost"
    /\ \E resp \in OutcomesOf(runs[r]) : Turn(r, resp, confirmPostStep(runs[r], resp))

\* a call of initScheduler() was the latest turn
InitCall == [NoDelivery EXCEPT !.kind = "initScheduler"]

\* variant: initScheduler() registering its cron task on every call
InitSchedulerUnguarded ==
    /\ UNCHANGED <<cliVars, libVars, webVars>>
    /\ timers' = Append(timers, 0)
    /\ isInitialized' = TRUE
    /\ delivered' = InitCall
    /\ UNCHANGED <<runs, jars, settings, schedules, logs, dbFaultsLeft, portal,
                   now, serverTz, ticks, edits>>

\* initScheduler(): registers the every-minute cron task unless the flag is set
InitScheduler ==
    /\ UNCHANGED <<cliVars, libVars, webVars>>
    /\ IF isInitialized
       THEN UNCHANGED <<isInitialized, timers>>
       ELSE /\ timers' = Append(timers, 0)
            /\ isInitialized' = TRUE
    /\ delivered' = InitCall
    /\ UNCHANGED <<runs, jars, settings, schedules, logs, dbFaultsLeft, portal,
                   now, serverTz, ticks, edits>>

\* variant: the cron callback going on without a settings row
TickFireWithoutSettings(k) ==
    /\ UNCHANGED <<cliVars, libVars, webVars>>
    /\ timers[k] < now
    /\ Len(ticks) < MaxTicks
    /\ timers' = [timers EXCEPT ![k] = now]
    /\ LoopFrom(Len(ticks) + 1, NewTick(k, now, getEnabledSchedules, getSettings),
                0, runs,
                Append(ticks, NewTick(k, now, getEnabledSchedules, getSettings)))
    /\ delivered' = NoDelivery
    /\ UNCHANGED <<settings, schedules, logs, dbFaultsLeft, portal, now,
                   serverTz, isInitialized, edits>>

\* variant: the cron callback returning at once while a scheduled run is in
\* flight
TickFireSkipIfRunning(k) ==
    /\ UNCHANGED <<cliVars, libVars, webVars>>
    /\ timers[k] < now
    /\ Len(ticks) < MaxTicks
    /\ timers' = [timers EXCEPT ![k] = now]
    /\ LET t == Len(ticks) + 1
           tick == NewTick(k, now, getEnabledSchedules, getSettings)
       IN  IF \/ ~tick.settings.present
              \/ \E r \in 1..Len(runs) : runs[r].caller # 0 /\ runs[r].pc # "done"
           THEN /\ ticks' = Append(ticks, [tick EXCEPT !.pc = "done"])
                /\ UNCHANGED <<runs, jars>>
           ELSE LoopFrom(t, tick, 0, runs, Append(ticks, tick))
    /\ delivered' = NoDelivery
    /\ UNCHANGED <<settings, schedules, logs, dbFaultsLeft, portal, now,
                   serverTz, isInitialized, edits>>

\* the cron callback of task k, fired once for the current minute
TickFire(k) ==
    /\ UNCHANGED <<cliVars, libVars, webVars>>
    /\ timers[k] < now
    /\ Len(ticks) < MaxTicks
    /\ timers' = [timers EXCEPT ![k] = now]
    /\ LET t == Len(ticks) + 1
           tick == NewTick(k, now, getEnabledSchedules, getSettings)
       IN  IF ~tick.settings.present
           THEN /\ ticks' = Append(ticks, [tick EXCEPT !.pc = "done"])
                /\ UNCHANGED <<runs, jars>>
           ELSE LoopFrom(t, tick, 0, runs, Append(ticks, tick))
    /\ delivered' = NoDelivery
    /\ UNCHANGED <<settings, schedules, logs, dbFaultsLeft, portal, now,
                   serverTz, isInitialized, edits>>

StopCall == [NoDelivery EXCEPT !.kind = "stopScheduler"]

\* stopScheduler(): scheduledTasks, which nothing ever adds to, is walked and
\* cleared, and the flag is reset; the task cron.schedule returned is not held
\* anywhere and goes on firing
StopScheduler ==
    /\ UNCHANGED <<cliVars, libVars, webVars>>
    /\ Len(timers) < MaxTimers
    /\ isInitialized' = FALSE
    /\ delivered' = StopCall
    /\ UNCHANGED <<runs, jars, settings, schedules, logs, dbFaultsLeft, portal,
                   now, serverTz, timers, ticks, edits>>

StartInstants == {884, 1589}

\* a minute passes
AdvanceClock ==
    /\ UNCHANGED <<cliVars, libVars, webVars>>
    /\ \E s \in StartInstants : s <= now /\ now < s + MaxAdvance
    /\ now' = now + 1
    /\ delivered' = NoDelivery
    /\ UNCHANGED <<runs, jars, settings, schedules, logs, dbFaultsLeft, portal,
                   serverTz, isInitialized, timers, ticks, edits>>

\* a JSON body of the schedule routes: the keys it has, and their values; a
\* number is its whole part and its first decimal
Body(keys, planName, psid, hour, hourTenths, minute, minuteTenths, timezone, enabled) ==
    [keys |-> keys, planName |-> planName, psid |-> psid, hour |-> hour,
     hourTenths |-> hourTenths, minute |-> minute,
     minuteTenths |-> minuteTenths, timezone |-> timezone, enabled |-> enabled]

\* a body of PATCH with whole numbers
Patch(keys, hour, minute, timezone, enabled) ==
    Body(keys, "", "", hour, 0, minute, 0, timezone, enabled)

PatchBodies ==
    { Patch({"minute"}, 0, 46, "", FALSE),
      Patch({"hour", "timezone"}, 24, 0, "Mars/Olympus", FALSE) }

\* number < bound and number > bound for a whole bound
lessThan(whole, tenths, bound) == whole < bound
greaterThan(whole, tenths, bound) ==
    whole > bound \/ (whole = bound /\ tenths > 0)

\* body.hour < 0 || body.hour > 23, body.minute < 0 || body.minute > 59
hourOutOfRange(body) ==
    lessThan(body.hour, body.hourTenths, 0)
        \/ greaterThan(body.hour, body.hourTenths, 23)
minuteOutOfRange(body) ==
    lessThan(body.minute, body.minuteTenths, 0)
        \/ greaterThan(body.minute, body.minuteTenths, 59)

\* the checks of PATCH /api/schedules/[id]
patchAccepted(body) ==
    /\ ~("hour" \in body.keys /\ hourOutOfRange(body))
    /\ ~("minute" \in body.keys /\ minuteOutOfRange(body))
    /\ ~("timezone" \in body.keys /\ ~isValidTimezone(body.timezone))

\* the CHECK constraints of the schedules table
checkConstraints(row) ==
    /\ ~lessThan(row.hour, row.hourTenths, 0)
    /\ ~greaterThan(row.hour, row.hourTenths, 23)
    /\ ~lessThan(row.minute, row.minuteTenths, 0)
    /\ ~greaterThan(row.minute, row.minuteTenths, 59)

\* UPDATE schedules SET <the fields given> WHERE id = ?
updateSchedule(rows, id, body) ==
    [i \in 1..Len(rows) |->
        IF rows[i].id # id THEN rows[i]
        ELSE [rows[i] EXCEPT
                !.planName = IF "planName" \in body.keys THEN body.planName ELSE @,
                !.psid = IF "psid" \in body.keys THEN body.psid ELSE @,
                !.hour = IF "hour" \in body.keys THEN body.hour ELSE @,
                !.hourTenths = IF "hour" \in body.keys THEN body.hourTenths ELSE @,
                !.minute = IF "minute" \in body.keys THEN body.minute ELSE @,
                !.minuteTenths =
                    IF "minute" \in body.keys THEN body.minuteTenths ELSE @,
                !.timezone = IF "timezone" \in body.keys THEN body.timezone ELSE @,
                !.enabled = IF "enabled" \in body.keys THEN body.enabled ELSE @]]

\* PATCH /api/schedules/[id]
UpdateSchedule(id, body) ==
    /\ UNCHANGED <<cliVars, libVars, webVars>>
    /\ edits < MaxEdits
    /\ IF /\ patchAccepted(body)
          /\ \A i \in 1..Len(schedules) :
                 checkConstraints(updateSchedule(schedules, id, body)[i])
       THEN /\ schedules' = updateSchedule(schedules, id, body)
            /\ edits' = edits + 1
       ELSE UNCHANGED <<schedules, edits>>
    /\ delivered' = NoDelivery
    /\ UNCHANGED <<runs, jars, settings, logs, dbFaultsLeft, portal, now,
                   serverTz, isInitialized, timers, ticks>>

\* a body of PATCH that disables the entry
DisableBodies == { Patch({"enabled"}, 0, 0, "", FALSE) }

\* DELETE FROM schedules WHERE id = ?
deleteSchedule(rows, id) == SelectSeq(rows, LAMBDA row : row.id # id)

\* DELETE /api/schedules/[id]
DeleteSchedule(id) ==
    /\ UNCHANGED <<cliVars, libVars, webVars>>
    /\ schedules' = deleteSchedule(schedules, id)
    /\ delivered' = NoDelivery
    /\ UNCHANGED <<runs, jars, settings, logs, dbFaultsLeft, portal, now,
                   serverTz, isInitialized, timers, ticks, edits>>

\* parseInt(number): the digits before the decimal point
parseInt(whole, tenths) == IF whole < 0 /\ tenths > 0 THEN whole + 1 ELSE whole

\* the checks of POST /api/schedules
postAccepted(body) ==
    /\ "planName" \in body.keys /\ body.planName # ""
    /\ "psid" \in body.keys /\ body.psid # ""
    /\ "hour" \in body.keys
    /\ "minute" \in body.keys
    /\ ~hourOutOfRange(body)
    /\ ~minuteOutOfRange(body)
    /\ isValidTimezone(IF "timezone" \in body.keys /\ body.timezone # ""
                       THEN body.timezone ELSE "UTC")

\* the Schedule object POST /api/schedules hands to addSchedule
newSchedule(id, body) ==
    StoredRow(id, body.planName, body.psid,
              parseInt(body.hour, body.hourTenths), 0,
              parseInt(body.minute, body.minuteTenths), 0,
              IF "timezone" \in body.keys /\ body.timezone # ""
              THEN body.timezone ELSE "UTC",
              IF "enabled" \in body.keys THEN body.enabled ELSE TRUE)

\* bodies sent to POST /api/schedules
PostBodies ==
    { Body({"planName", "psid", "hour", "minute"},
           "Home Fast", "2669", 14, 0, 45, 0, "", FALSE),
      Body({"planName", "psid", "hour", "minute", "timezone", "enabled"},
           "Standby", "2623", 12, 5, 0, 0, "America/New_York", FALSE),
      Body({"planName", "psid", "hour", "minute", "timezone"},
           "Standby", "2623", 23, 0, 59, 0, "Australia/Brisbane", FALSE),
      Body({"planName", "psid", "hour", "minute", "timezone"},
           "Home Fast", "2669", 0, 0, 0, 9, "", FALSE),
      Body({"planName", "psid", "hour", "minute"},
           "Home Fast", "2669", 24, 0, 0, 0, "", FALSE),
      Body({"planName", "psid", "hour", "minute"},
           "Home Fast", "2669", -1, 5, 0, 0, "", FALSE),
      Body({"planName", "psid", "hour", "minute"},
           "Home Fast", "2669", 9, 0, 59, 5, "", FALSE),
      Body({"planName", "psid", "hour", "minute", "timezone"},
           "Home Fast", "2669", 9, 0, 30, 0, "Mars/Olympus", FALSE),
      Body({"planName", "psid", "hour"},
           "Home Fast", "2669", 9, 0, 0, 0, "", FALSE) }

\* bodies sent to PATCH /api/schedules/[id]
ApiPatchBodies ==
    PatchBodies \cup
    { Body({"hour"}, "", "", 12, 5, 0, 0, "", FALSE),
      Body({"minute"}, "", "", 0, 0, 30, 5, "", FALSE),
      Body({"hour", "minute"}, "", "", 23, 0, 60, 0, "", FALSE),
      Body({"timezone", "enabled"}, "", "", 0, 0, 0, 0, "Australia/Brisbane", FALSE) }

\* POST /api/schedules
CreateSchedule(body) ==
    /\ Len(schedules) < MaxRows
    /\ LET row == newSchedule(Len(schedules) + 1, body) IN
       IF postAccepted(body) /\ checkConstraints(row)
       THEN schedules' = Append(schedules, row)
       ELSE UNCHANGED schedules
    /\ delivered' = NoDelivery
    /\ UNCHANGED <<runs, jars, settings, logs, dbFaultsLeft, portal, now,
                   serverTz, isInitialized, timers, ticks, edits>>
    /\ UNCHANGED <<cliVars, libVars, webVars>>

---------------------------------------------------------------------------
(* The CLI job (src/index.ts): lock file, option checks, login and confirm *)

Pids == 1..MaxProcs

NoExit == -1

NoProc == [pc |-> "idle", args |-> "", openErr |-> "", lockAcquired |-> FALSE,
           reqs |-> <<>>, error |-> "", skipLogged |-> FALSE, exit |-> NoExit]

\* command line and environment of a process: --psid with a complete .env, a
\* --plan that is not in the catalogue, neither option, a required variable
\* missing
CliArgs == {"psid", "unknownPlan", "noOption", "noEnv"}

\* loadEnvAndArgs() returns instead of calling process.exit(1)
loadEnvAndArgs(args) == args = "psid"

\* variant: the lock file opened with flag 'w', which takes an existing file
openTruncate(file, dir, pid) ==
    CASE dir = "denied" -> [file |-> file, err |-> "EACCES"]
      [] dir = "missing" -> [file |-> file, err |-> "ENOENT"]
      [] OTHER -> [file |-> pid, err |-> ""]

\* open(LOCK_FILE, O_WRONLY | O_CREAT | O_EXCL) inside fsp.writeFile
openExclusive(file, dir, pid) ==
    CASE dir = "denied" -> [file |-> file, err |-> "EACCES"]
      [] dir = "missing" -> [file |-> file, err |-> "ENOENT"]
      [] file # 0 -> [file |-> file, err |-> "EEXIST"]
      [] OTHER -> [file |-> pid, err |-> ""]

\* variant: only a refused open counts as a held lock
lockHeldDeniedOnly(err) == err = "EACCES"

\* acquireLock(): what the catch clause makes of the error
lockHeld(err) == err = "EEXIST" \/ err = "EACCES"

\* variant: the file unlinked whoever made it
releaseLockSyncUnguarded(proc, file) == 0

\* releaseLockSync(): unlinkSync(LOCK_FILE) when this process set lockAcquired
releaseLockSync(proc, file) == IF proc.lockAcquired THEN 0 ELSE file

\* process.exit(code), or the end of the event loop: the 'exit' listener runs
\* releaseLockSync
Exit(proc, code) ==
    [proc EXCEPT !.pc = "exited", !.exit = code, !.lockAcquired = FALSE]

\* the CLI's login() and confirmService() after a response: the request to
\* issue next, "done" at the end of confirmService, or the error thrown
cliStep(kind, resp) ==
    IF resp.err # "" THEN [next |-> "", error |-> "transport"]
    ELSE IF resp.status >= 400 THEN [next |-> "", error |-> "status"]
    ELSE CASE kind = "loginGet" ->
                IF resp.page.postForm THEN [next |-> "loginPost", error |-> ""]
                ELSE [next |-> "", error |-> "Login form not found on the page"]
           [] kind = "loginPost" -> [next |-> "confirmGet", error |-> ""]
           [] kind = "confirmGet" ->
                IF resp.page.passwordInput \/ resp.page.loginAction
                      \/ resp.page.loginTitle
                THEN [next |-> "", error |-> "Not authenticated on confirm page (login detected)"]
                ELSE IF ~(resp.page.namedForm \/ resp.page.actionForm
                            \/ resp.page.psidForm)
                THEN [next |-> "", error |-> "Confirm form not found on the page"]
                ELSE [next |-> "confirmPost", error |-> ""]
           [] kind = "confirmPost" -> [next |-> "done", error |-> ""]

\* cron (or a shell) starts a process of the job
CliStart(p, args) ==
    /\ procs[p].pc = "idle"
    /\ procs' = [procs EXCEPT ![p].pc = "open", ![p].args = args]
    /\ UNCHANGED <<serverVars, libVars, webVars, lockFile, lockDir>>

\* the open of fsp.writeFile(LOCK_FILE, payload, {flag: 'wx'}) is carried out
CliOpen(p) ==
    /\ procs[p].pc = "open"
    /\ LET o == openExclusive(lockFile, lockDir, p) IN
       /\ lockFile' = o.file
       /\ procs' = [procs EXCEPT ![p].pc = "opened", ![p].openErr = o.err]
    /\ UNCHANGED <<serverVars, libVars, webVars, lockDir>>

\* the promise of writeFile settles: the rest of acquireLock() and main() up to
\* the login GET
CliAcquire(p) ==
    /\ procs[p].pc = "opened"
    /\ LET proc == procs[p] IN
       IF proc.openErr = ""
       THEN LET held == [proc EXCEPT !.lockAcquired = TRUE] IN
            IF loadEnvAndArgs(proc.args)
            THEN /\ procs' = [procs EXCEPT ![p] =
                        [held EXCEPT !.pc = "loginGet",
                                     !.reqs = Append(@, "loginGet")]]
                 /\ UNCHANGED lockFile
            ELSE /\ procs' = [procs EXCEPT ![p] = Exit(held, 1)]
                 /\ lockFile' = releaseLockSync(held, lockFile)
       ELSE IF lockHeld(proc.openErr)
       THEN /\ procs' = [procs EXCEPT ![p] =
                   Exit([proc EXCEPT !.skipLogged = TRUE], 0)]
            /\ lockFile' = releaseLockSync(proc, lockFile)
       ELSE /\ procs' = [procs EXCEPT ![p] =
                   Exit([proc EXCEPT !.error = proc.openErr], 1)]
            /\ lockFile' = releaseLockSync(proc, lockFile)
    /\ UNCHANGED <<serverVars, libVars, webVars, lockDir>>

\* the request a process awaits comes back
CliResponse(p) ==
    /\ procs[p].pc \in {"loginGet", "loginPost", "confirmGet", "confirmPost"}
    /\ \E resp \in Outcomes(procs[p].pc) :
         LET proc == procs[p]
             step == cliStep(proc.pc, resp)
         IN  IF step.error # ""
             THEN /\ procs' = [procs EXCEPT ![p] =
                         Exit([proc EXCEPT !.error = step.error], 1)]
                  /\ lockFile' = releaseLockSync(proc, lockFile)
             ELSE IF step.next = "done"
             THEN /\ procs' = [procs EXCEPT ![p] = Exit(proc, 0)]
                  /\ lockFile' = releaseLockSync(proc, lockFile)
             ELSE /\ procs' = [procs EXCEPT ![p].pc = step.next,
                                           ![p].reqs = Append(@, step.next)]
                  /\ UNCHANGED lockFile
    /\ UNCHANGED <<serverVars, libVars, webVars, lockDir>>

\* the continuation of the service's request of that kind
serviceStep(run, resp) ==
    CASE run.pc = "loginGet" -> loginGetStep(run, resp)
      [] run.pc = "loginPost" -> loginPostStep(run, resp)
      [] run.pc = "confirmGet" -> confirmGetStep(run, resp)
      [] run.pc = "confirmPost" -> confirmPostStep(run, resp)

\* the portal answers a request of the service and the same request of a
\* process of the job with the same response: the turn of changePlan in POST
\* /api/plans/change and the turn of main()
PairedResponse(r, p) ==
    /\ runs[r].caller = 0
    /\ runs[r].pc \in {"loginGet", "loginPost", "confirmGet", "confirmPost"}
    /\ procs[p].pc = runs[r].pc
    /\ \E resp \in Outcomes(runs[r].pc) :
         LET run == serviceStep(runs[r], resp)
             proc == procs[p]
             step == cliStep(proc.pc, resp)
         IN  /\ delivered' = [run |-> r, kind |-> runs[r].pc, resp |-> resp]
             /\ IF run.pc # "done"
                THEN /\ runs' = [runs EXCEPT ![r] = run]
                     /\ UNCHANGED <<jars, logs, dbFaultsLeft, ticks>>
                ELSE ManualContinue(r, run)
             /\ IF step.error # ""
                THEN /\ procs' = [procs EXCEPT ![p] =
                            Exit([proc EXCEPT !.error = step.error], 1)]
                     /\ lockFile' = releaseLockSync(proc, lockFile)
                ELSE IF step.next = "done"
                THEN /\ procs' = [procs EXCEPT ![p] = Exit(proc, 0)]
                     /\ lockFile' = releaseLockSync(proc, lockFile)
                ELSE /\ procs' = [procs EXCEPT ![p].pc = step.next,
                                              ![p].reqs = Append(@, step.next)]
                     /\ UNCHANGED lockFile
    /\ UNCHANGED <<settings, schedules, portal, now, serverTz, isInitialized,
                   timers, edits, libVars, webVars, lockDir>>

\* exit codes of the SIGINT and SIGTERM listeners
SigInt == 130
SigTerm == 143

\* SIGINT or SIGTERM reaches a process between two turns of its event loop:
\* the listener runs releaseLockSync() and process.exit(code)
CliSignal(p, code) ==
    /\ procs[p].pc \notin {"idle", "exited", "killed"}
    /\ procs' = [procs EXCEPT ![p] = Exit(procs[p], code)]
    /\ lockFile' = releaseLockSync(procs[p], lockFile)
    /\ UNCHANGED <<serverVars, libVars, webVars, lockDir>>

\* SIGKILL, or a crash of the runtime: the process is gone and no listener ran
CliKill(p) ==
    /\ procs[p].pc \notin {"idle", "exited", "killed"}
    /\ procs' = [procs EXCEPT ![p].pc = "killed"]
    /\ UNCHANGED <<serverVars, libVars, webVars, lockFile, lockDir>>

\* rm -f of the lock file a dead process left behind
RemoveStaleLock ==
    /\ lockFile # 0
    /\ procs[lockFile].pc = "killed"
    /\ lockFile' = 0
    /\ UNCHANGED <<serverVars, libVars, webVars, lockDir, procs>>

\* no CLI process is part of the execution
CliIdle ==
    /\ lockFile = 0
    /\ lockDir = "ok"
    /\ procs = [p \in Pids |-> NoProc]

---------------------------------------------------------------------------
(* The settings routes: GET and POST /api/settings *)

\* JSON bodies the settings page and other clients send: a key that is
\* missing or empty is the empty string
SettingsBodies ==
    { [NoSettings EXCEPT !.present = TRUE, !.base = base, !.username = username,
                         !.password = password, !.userId = userId,
                         !.serviceId = "2002", !.avcId = "3003",
                         !.locId = "4004", !.discountCode = discountCode] :
          base \in {GoodBase, BadBase}, username \in {"alice", "bob"},
          password \in {"", "secret", "hunter2"}, userId \in {"", "1001"},
          discountCode \in {"", "SAVE10"} }

\* the seven required fields of POST /api/settings
settingsComplete(body) ==
    /\ body.base # "" /\ body.username # "" /\ body.password # ""
    /\ body.userId # "" /\ body.serviceId # "" /\ body.avcId # ""
    /\ body.locId # ""

\* a || b on strings
orDefault(a, b) == IF a = "" THEN b ELSE a

\* saveSettings: the row after INSERT ... ON CONFLICT(id) DO UPDATE
saveSettings(body) ==
    [body EXCEPT !.present = TRUE,
                 !.unpause = orDefault(body.unpause, "0"),
                 !.coat = orDefault(body.coat, "0"),
                 !.churn = orDefault(body.churn, "0"),
                 !.timeoutMs = IF body.timeoutMs = 0 THEN 15000 ELSE body.timeoutMs]

\* variant: the whole row returned
settingsJsonWithPassword(s) ==
    IF ~s.present THEN [settings |-> Null]
    ELSE [settings |-> [s EXCEPT !.password = s.password],
          hasPassword |-> s.password # ""]

\* body of the response of GET /api/settings: { settings: null }, or the row
\* without its password and with hasPassword
settingsJson(s) ==
    IF ~s.present THEN [settings |-> Null]
    ELSE [settings |-> [k \in DOMAIN s \ {"password"} |-> s[k]],
          hasPassword |-> s.password # ""]

NoReply == [route |-> "", request |-> NoSettings, status |-> 0,
            body |-> [settings |-> Null]]

\* GET /api/settings
GetSettings ==
    /\ reply' = [route |-> "GET /api/settings", request |-> NoSettings,
                 status |-> 200, body |-> settingsJson(getSettings)]
    /\ UNCHANGED <<serverVars, cliVars, libVars, built>>

\* POST /api/settings
PostSettings(body) ==
    /\ IF settingsComplete(body)
       THEN /\ settings' = saveSettings(body)
            /\ reply' = [route |-> "POST /api/settings", request |-> body,
                         status |-> 200, body |-> [settings |-> Null]]
       ELSE /\ UNCHANGED settings
            /\ reply' = [route |-> "POST /api/settings", request |-> body,
                         status |-> 400, body |-> [settings |-> Null]]
    /\ UNCHANGED <<runs, jars, delivered, schedules, logs, dbFaultsLeft, portal,
                   now, serverTz, isInitialized, timers, ticks, edits>>
    /\ UNCHANGED <<cliVars, libVars, built>>

---------------------------------------------------------------------------
(* Calls of the two pure functions *)

NoResolve == [input |-> <<>>, called |-> FALSE, norm |-> <<>>, result |-> NotFound]

NoScrape == [form |-> <<>>, called |-> FALSE, data |-> NoFields]

\* resolvePlanToPsid(planInput) is called
ResolvePlan ==
    /\ ~resolved.called
    /\ resolved' = [resolved EXCEPT
                       !.called = TRUE,
                       !.norm = normalizePlanName(resolved.input),
                       !.result = resolvePlanToPsid(resolved.input)]
    /\ UNCHANGED <<serverVars, cliVars, webVars, scraped>>

\* collectFormInputs($, form) is called
CollectFormInputs ==
    /\ ~scraped.called
    /\ scraped' = [scraped EXCEPT
                      !.called = TRUE,
                      !.data = collectFormInputs(scraped.form)]
    /\ UNCHANGED <<serverVars, cliVars, webVars, resolved>>

\* neither function is part of the execution
LibIdle ==
    /\ resolved = NoResolve
    /\ scraped = NoScrape

\* the configurations a body is built with
BodyConfigs ==
    { ConfigOf(SettingsRow(GoodBase, "alice"), "2669"),
      ConfigOf([SettingsRow(GoodBase, "bob") EXCEPT
                    !.unpause = "", !.coat = "1", !.scheduledDt = "2026-03-09",
                    !.newServicePaymentOption = "card",
                    !.discountCode = "SAVE10"], "2623") }

\* a scraped field set with the given keys
Scraped(keys) == [k \in keys |-> IF k = "csrf" THEN "token" ELSE "scraped"]

\* field sets scraped from a login form
LoginFieldSets ==
    {Scraped(keys) :
        keys \in SUBSET {"username", "email", "user", "login", "password",
                         "passwd", "pass", "csrf"}}

\* field sets scraped from a confirm form
ConfirmFieldSets ==
    {Scraped(keys) :
        keys \in SUBSET {"psid", "userid", "ntdreplace", "discount_code",
                         "scheduleddt", "csrf"}}

\* forms of a confirm page; the csrf field tells them apart
ConfirmForms ==
    { FormEl("confirm_service", <<"/", "g", "o">>, FALSE, [csrf |-> "named"]),
      FormEl("search", <<"/", "c", "o", "n", "f", "i", "r", "m", "_",
                         "s", "e", "r", "v", "i", "c", "e", "?", "a">>,
             FALSE, [csrf |-> "action"]),
      FormEl("", <<"/", "g", "o">>, TRUE, [csrf |-> "psid", psid |-> "scraped"]),
      FormEl("CONFIRM_SERVICE", <<"/", "C", "O", "N", "F", "I", "R", "M", "_",
                                  "S", "E", "R", "V", "I", "C", "E">>,
             FALSE, [csrf |-> "none"]),
      FormEl("confirm_service", <<>>, TRUE, [csrf |-> "all", psid |-> "scraped"]) }

\* confirm pages: up to MaxForms forms, or one form with any scraped field set
ConfirmPageForms ==
    UNION {[1..n -> ConfirmForms] : n \in 0..MaxForms}
        \cup {<<FormEl("confirm_service", <<>>, FALSE, f)>> : f \in ConfirmFieldSets}

NoBuilt == [kind |-> "", called |-> FALSE, config |-> ConfigOf(NoSettings, ""),
            looksLikeLogin |-> FALSE, forms |-> <<>>, fields |-> NoFields, chosen |-> 0, error |-> "",
            posted |-> FALSE, body |-> {}]

\* login() from the scraped fields to the request body of client.post
LoginBody ==
    /\ built.kind = "login" /\ ~built.called
    /\ built' = [built EXCEPT
                    !.called = TRUE,
                    !.posted = TRUE,
                    !.body = URLSearchParams(loginFields(built.fields, built.config))]
    /\ UNCHANGED <<serverVars, cliVars, libVars, reply>>

\* confirmService() from the parsed page to the request body of client.post,
\* or to the error thrown when the page looks like the login page or no form
\* is found
ConfirmBody ==
    /\ built.kind = "confirm" /\ ~built.called
    /\ LET i == chooseConfirmForm(built.forms) IN
       IF built.looksLikeLogin
       THEN built' = [built EXCEPT
                         !.called = TRUE,
                         !.error = "Not authenticated on confirm page (login detected)"]
       ELSE IF i = 0
       THEN built' = [built EXCEPT
                         !.called = TRUE,
                         !.error = "Confirm form not found on the page"]
       ELSE built' = [built EXCEPT
                         !.called = TRUE,
                         !.chosen = i,
                         !.fields = built.forms[i].fields,
                         !.posted = TRUE,
                         !.body = URLSearchParams(
                                      confirmFields(built.forms[i].fields,
                                                    built.config))]
    /\ UNCHANGED <<serverVars, cliVars, libVars, reply>>

\* no request to the settings routes, no body built
WebIdle ==
    /\ reply = NoReply
    /\ built = NoBuilt

---------------------------------------------------------------------------
(* Specifications *)

\* the engine driven by manual plan changes, the portal answering anything
Init ==
    /\ runs = <<>>
    /\ jars = 0
    /\ delivered = NoDelivery
    /\ settings \in {SettingsRow(GoodBase, "alice"), SettingsRow(BadBase, "alice")}
    /\ schedules = <<>>
    /\ logs = <<>>
    /\ dbFaultsLeft = 0
    /\ portal = "any"
    /\ now = 884
    /\ serverTz = "UTC"
    /\ isInitialized = FALSE
    /\ timers = <<>>
    /\ ticks = <<>>
    /\ edits = 0
    /\ CliIdle
    /\ LibIdle
    /\ WebIdle

Next ==
    \/ \E psid \in PsidInputs : ManualChange(psid)
    \/ \E r \in 1..Len(runs) : LoginGetResponse(r)
    \/ \E r \in 1..Len(runs) : LoginPostResponse(r)
    \/ \E r \in 1..Len(runs) : ConfirmGetResponse(r)
    \/ \E r \in 1..Len(runs) : ConfirmPostResponse(r)

Spec == Init /\ [][Next]_vars

\* schedules table contents at start-up
InitialSchedules ==
    { <<ScheduleRow(1, "Home Fast", "2669", 14, 45, "UTC", TRUE),
        ScheduleRow(2, "Standby", "2623", 9, 45, "America/New_York", TRUE)>>,
      <<ScheduleRow(1, "Standby", "2623", 9, 46, "America/New_York", TRUE),
        ScheduleRow(2, "Home Fast", "2669", 14, 45, "UTC", TRUE)>>,
      <<ScheduleRow(1, "Home Fast", "2669", 14, 45, "UTC", FALSE),
        ScheduleRow(2, "Standby", "2623", 0, 45, "Australia/Brisbane", TRUE)>>,
      <<ScheduleRow(1, "Standby", "2623", 2, 30, "UTC", TRUE),
        ScheduleRow(2, "Home Fast", "2669", 3, 30, "UTC", TRUE)>> }

\* the scheduler with the database and the clock
SchedInit ==
    /\ runs = <<>>
    /\ jars = 0
    /\ delivered = NoDelivery
    /\ settings \in {NoSettings, SettingsRow(GoodBase, "alice")}
    /\ schedules \in InitialSchedules
    /\ logs = <<>>
    /\ dbFaultsLeft \in {0, MaxDbFaults}
    /\ portal \in {"up", "down"}
    /\ now \in StartInstants
    /\ serverTz \in {"UTC", "America/New_York"}
    /\ isInitialized = FALSE
    /\ timers = <<>>
    /\ ticks = <<>>
    /\ edits = 0
    /\ CliIdle
    /\ LibIdle
    /\ WebIdle

SchedNext ==
    \/ InitScheduler
    \/ AdvanceClock
    \/ \E k \in 1..Len(timers) : TickFire(k)
    \/ \E id \in 1..Len(schedules), body \in PatchBodies : UpdateSchedule(id, body)
    \/ \E r \in 1..Len(runs) : LoginGetResponse(r)
    \/ \E r \in 1..Len(runs) : LoginPostResponse(r)
    \/ \E r \in 1..Len(runs) : ConfirmGetResponse(r)
    \/ \E r \in 1..Len(runs) : ConfirmPostResponse(r)

SchedSpec == SchedInit /\ [][SchedNext]_vars

\* the service and the job with one configuration, the portal answering both
\* alike
PairInit ==
    /\ runs = <<>>
    /\ jars = 0
    /\ delivered = NoDelivery
    /\ settings = SettingsRow(GoodBase, "alice")
    /\ schedules = <<>>
    /\ logs = <<>>
    /\ dbFaultsLeft = 0
    /\ portal = "any"
    /\ now = 884
    /\ serverTz = "UTC"
    /\ isInitialized = FALSE
    /\ timers = <<>>
    /\ ticks = <<>>
    /\ edits = 0
    /\ CliIdle
    /\ LibIdle
    /\ WebIdle

PairNext ==
    \/ \E psid \in PsidInputs : ManualChange(psid)
    \/ CliStart(1, "psid")
    \/ CliOpen(1)
    \/ CliAcquire(1)
    \/ \E r \in 1..Len(runs) : PairedResponse(r, 1)

PairSpec == PairInit /\ [][PairNext]_vars

\* two entries due in the very minute the execution starts
SlowSchedules ==
    { <<ScheduleRow(1, "Home Fast", "2669", 14, 44, "UTC", TRUE),
        ScheduleRow(2, "Standby", "2623", 9, 44, "America/New_York", TRUE)>>,
      <<ScheduleRow(1, "Standby", "2623", 2, 29, "UTC", TRUE),
        ScheduleRow(2, "Home Fast", "2669", 2, 29, "UTC", TRUE)>> }

\* the scheduler with runs that outlast the minute of their tick
SlowInit ==
    /\ runs = <<>>
    /\ jars = 0
    /\ delivered = NoDelivery
    /\ settings \in {NoSettings, SettingsRow(GoodBase, "alice")}
    /\ schedules \in SlowSchedules
    /\ logs = <<>>
    /\ dbFaultsLeft \in {0, MaxDbFaults}
    /\ portal \in {"up", "down"}
    /\ now \in StartInstants
    /\ serverTz \in {"UTC", "America/New_York"}
    /\ isInitialized = FALSE
    /\ timers = <<>>
    /\ ticks = <<>>
    /\ edits = 0
    /\ CliIdle
    /\ LibIdle
    /\ WebIdle

SlowSpec == SlowInit /\ [][SchedNext]_vars

\* ids of the stored entries
ScheduleIds == {schedules[i].id : i \in 1..Len(schedules)}

\* the scheduler while entries are disabled and deleted
RetireNext ==
    \/ InitScheduler
    \/ AdvanceClock
    \/ \E k \in 1..Len(timers) : TickFire(k)
    \/ \E id \in ScheduleIds, body \in DisableBodies : UpdateSchedule(id, body)
    \/ \E id \in ScheduleIds : DeleteSchedule(id)
    \/ \E r \in 1..Len(runs) : LoginGetResponse(r)
    \/ \E r \in 1..Len(runs) : LoginPostResponse(r)
    \/ \E r \in 1..Len(runs) : ConfirmGetResponse(r)
    \/ \E r \in 1..Len(runs) : ConfirmPostResponse(r)

RetireSpec == SchedInit /\ [][RetireNext]_vars

\* the scheduler with calls of stopScheduler
LifecycleNext ==
    \/ InitScheduler
    \/ StopScheduler
    \/ AdvanceClock
    \/ \E k \in 1..Len(timers) : TickFire(k)
    \/ \E r \in 1..Len(runs) : LoginGetResponse(r)
    \/ \E r \in 1..Len(runs) : LoginPostResponse(r)
    \/ \E r \in 1..Len(runs) : ConfirmGetResponse(r)
    \/ \E r \in 1..Len(runs) : ConfirmPostResponse(r)

LifecycleSpec == SchedInit /\ [][LifecycleNext]_vars

\* the scheduler and the manual route side by side, nothing failing but the
\* portal
MixedInit ==
    /\ SchedInit
    /\ settings.present
    /\ schedules[1].hour = 14
    /\ schedules[1].enabled
    /\ schedules[2].hour = 9
    /\ schedules[2].minute = 45
    /\ now = 884
    /\ dbFaultsLeft = 0
    /\ serverTz = "UTC"

MixedNext ==
    \/ InitScheduler
    \/ \E psid \in PsidInputs : ManualChange(psid)
    \/ AdvanceClock
    \/ \E k \in 1..Len(timers) : TickFire(k)
    \/ \E r \in 1..Len(runs) : LoginGetResponse(r)
    \/ \E r \in 1..Len(runs) : LoginPostResponse(r)
    \/ \E r \in 1..Len(runs) : ConfirmGetResponse(r)
    \/ \E r \in 1..Len(runs) : ConfirmPostResponse(r)

MixedSpec == MixedInit /\ [][MixedNext]_vars

\* processes of the CLI job on one machine, the server idle
CliInit ==
    /\ runs = <<>>
    /\ jars = 0
    /\ delivered = NoDelivery
    /\ settings = NoSettings
    /\ schedules = <<>>
    /\ logs = <<>>
    /\ dbFaultsLeft = 0
    /\ portal = "any"
    /\ now = 884
    /\ serverTz = "UTC"
    /\ isInitialized = FALSE
    /\ timers = <<>>
    /\ ticks = <<>>
    /\ edits = 0
    /\ lockFile = 0
    /\ lockDir \in {"ok", "denied", "missing"}
    /\ procs = [p \in Pids |-> NoProc]
    /\ LibIdle
    /\ WebIdle

CliNext ==
    \/ \E p \in Pids, args \in CliArgs : CliStart(p, args)
    \/ \E p \in Pids : CliOpen(p)
    \/ \E p \in Pids : CliAcquire(p)
    \/ \E p \in Pids : CliResponse(p)

CliSpec == CliInit /\ [][CliNext]_vars

\* the CLI job with signals, crashes and the removal of a stale lock file
SignalNext ==
    \/ \E p \in Pids, args \in CliArgs : CliStart(p, args)
    \/ \E p \in Pids : CliOpen(p)
    \/ \E p \in Pids : CliAcquire(p)
    \/ \E p \in Pids : CliResponse(p)
    \/ \E p \in Pids, code \in {SigInt, SigTerm} : CliSignal(p, code)
    \/ \E p \in Pids : CliKill(p)
    \/ RemoveStaleLock

SignalSpec == CliInit /\ [][SignalNext]_vars

\* nothing of the server is running
ServerIdle ==
    /\ runs = <<>>
    /\ jars = 0
    /\ delivered = NoDelivery
    /\ settings = NoSettings
    /\ schedules = <<>>
    /\ logs = <<>>
    /\ dbFaultsLeft = 0
    /\ portal = "any"
    /\ now = 884
    /\ serverTz = "UTC"
    /\ isInitialized = FALSE
    /\ timers = <<>>
    /\ ticks = <<>>
    /\ edits = 0

\* one call of resolvePlanToPsid on a typed plan name
PlanInit ==
    /\ ServerIdle
    /\ CliIdle
    /\ resolved \in {[NoResolve EXCEPT !.input = s] : s \in PlanInputs}
    /\ scraped = NoScrape
    /\ WebIdle

PlanNext == ResolvePlan

PlanSpec == PlanInit /\ [][PlanNext]_vars

\* one call of collectFormInputs on a form
FormInit ==
    /\ ServerIdle
    /\ CliIdle
    /\ resolved = NoResolve
    /\ scraped \in {[NoScrape EXCEPT !.form = f] : f \in Forms}
    /\ WebIdle

FormNext == CollectFormInputs

FormSpec == FormInit /\ [][FormNext]_vars

\* the schedule routes on an empty table
ApiInit ==
    /\ ServerIdle
    /\ CliIdle
    /\ LibIdle
    /\ WebIdle

ApiNext ==
    \/ \E body \in PostBodies : CreateSchedule(body)
    \/ \E id \in 1..Len(schedules), body \in ApiPatchBodies : UpdateSchedule(id, body)

ApiSpec == ApiInit /\ [][ApiNext]_vars

\* passwords a stored row may hold
Passwords == {"secret", "hunter2"}

\* the settings routes, the table empty or holding a row
SettingsInit ==
    /\ runs = <<>>
    /\ jars = 0
    /\ delivered = NoDelivery
    /\ settings \in {NoSettings} \cup
           {[SettingsRow(GoodBase, "alice") EXCEPT !.password = pw] :
                pw \in Passwords}
    /\ schedules = <<>>
    /\ logs = <<>>
    /\ dbFaultsLeft = 0
    /\ portal = "any"
    /\ now = 884
    /\ serverTz = "UTC"
    /\ isInitialized = FALSE
    /\ timers = <<>>
    /\ ticks = <<>>
    /\ edits = 0
    /\ CliIdle
    /\ LibIdle
    /\ WebIdle

SettingsNext ==
    \/ GetSettings
    \/ \E body \in SettingsBodies : PostSettings(body)

SettingsSpec == SettingsInit /\ [][SettingsNext]_vars

\* bodies of POST /api/settings sent while the scheduler runs
ReconfigBodies ==
    {body \in SettingsBodies :
        /\ body.base = GoodBase
        /\ body.discountCode = ""
        /\ body.password # "hunter2"}

\* the scheduler while the settings are saved again
ReconfigInit == MixedInit

ReconfigNext ==
    \/ InitScheduler
    \/ AdvanceClock
    \/ \E k \in 1..Len(timers) : TickFire(k)
    \/ \E body \in ReconfigBodies : PostSettings(body)
    \/ \E r \in 1..Len(runs) : LoginGetResponse(r)
    \/ \E r \in 1..Len(runs) : LoginPostResponse(r)
    \/ \E r \in 1..Len(runs) : ConfirmGetResponse(r)
    \/ \E r \in 1..Len(runs) : ConfirmPostResponse(r)

ReconfigSpec == ReconfigInit /\ [][ReconfigNext]_vars

\* one login body or one confirm body built
BodyInit ==
    /\ ServerIdle
    /\ CliIdle
    /\ LibIdle
    /\ reply = NoReply
    /\ built \in
           {[NoBuilt EXCEPT !.kind = "login", !.config = c, !.fields = f] :
                c \in BodyConfigs, f \in LoginFieldSets}
           \cup {[NoBuilt EXCEPT !.kind = "confirm", !.config = c, !.forms = p,
                                  !.looksLikeLogin = l] :
                     c \in BodyConfigs, p \in ConfirmPageForms, l \in BOOLEAN}

BodyNext ==
    \/ LoginBody
    \/ ConfirmBody

BodySpec == BodyInit /\ [][BodyNext]_vars

---------------------------------------------------------------------------
(* Properties of the engine *)

RequestOrder == <<"loginGet", "loginPost", "confirmGet", "confirmPost">>

Finished(run) == run.pc = "done"

\* the run that handled the latest response, after handling it
DeliveredRun == runs[delivered.run]

\* a response with a status below 400 arrived for a request of that kind
Arrived(kind) ==
    /\ delivered.run # 0
    /\ delivered.kind = kind
    /\ delivered.resp.err = ""
    /\ delivered.resp.status < 400

\* C1: changePlan never throws; whatever the login and confirm steps meet, it
\* returns exactly one result record, and after a fatal error that record has
\* success = false and the error's text as its message.
C1_NeverThrows ==
    \A r \in 1..Len(runs) :
        /\ ~runs[r].threw
        /\ runs[r].returned = (IF Finished(runs[r]) THEN 1 ELSE 0)
        /\ runs[r].error # NoError =>
              /\ Finished(runs[r])
              /\ ~runs[r].result.success
              /\ runs[r].result.message = runs[r].error
        /\ Finished(runs[r]) /\ runs[r].error = NoError => runs[r].result.success

\* a run ended by a timeout on its confirm POST has returned a failure record
\* carrying the timeout's text
C1_Witness ==
    \E r \in 1..Len(runs) :
        /\ runs[r].returned = 1
        /\ Len(runs[r].reqs) = 4
        /\ ~runs[r].result.success
        /\ runs[r].result.message = Msg("timeout of 15000ms exceeded")

\* the run was waiting for its confirm POST after three requests that all
\* passed, and the response passes too
AllStepsPassed(run, resp) ==
    /\ Len(run.reqs) = 4
    /\ \A i \in 1..4 : run.reqs[i].kind = RequestOrder[i]
    /\ \A i \in 1..3 : run.reqs[i].status \in 1..399
    /\ run.reqs[1].page.postForm
    /\ ~run.reqs[3].page.passwordInput
    /\ ~run.reqs[3].page.loginAction
    /\ ~run.reqs[3].page.loginTitle
    /\ run.reqs[3].page.namedForm \/ run.reqs[3].page.actionForm
          \/ run.reqs[3].page.psidForm
    /\ resp.err = ""
    /\ resp.status \in 1..399
    /\ \E k \in 1..Len(successIndicators) :
          includes(toLowerCase(resp.page.body), successIndicators[k])

\* C2: a run returns success = true only if every step passed (both login
\* requests below 400 with a POST form on the login page, confirm GET below
\* 400 without login signal and with a confirm form, confirm POST below 400
\* with a positive keyword in its body); in every other case success = false.
C2_SuccessOnlyIfAllPassed ==
    [][\A r \in 1..Len(runs) :
          ~Finished(runs[r]) /\ Finished(runs'[r]) =>
              /\ delivered'.run = r
              /\ runs'[r].result.success =>
                    AllStepsPassed(runs[r], delivered'.resp)]_vars

\* a run returned success after its fourth request
C2_Witness ==
    /\ Arrived("confirmPost")
    /\ Len(DeliveredRun.reqs) = 4
    /\ DeliveredRun.result.success
    /\ DeliveredRun.result.message = Msg("Plan changed successfully")

\* C3: the requests of one run are a prefix of <login GET, login POST,
\* confirm GET, confirm POST>; each is issued only after the one before it was
\* answered, and none is issued twice.
C3_RequestPrefix ==
    \A r \in 1..Len(runs) :
        /\ Len(runs[r].reqs) <= 4
        /\ \A i \in 1..Len(runs[r].reqs) :
              /\ runs[r].reqs[i].kind = RequestOrder[i]
              /\ i < Len(runs[r].reqs) => runs[r].reqs[i].status # 0

\* a run whose login POST timed out stopped after two requests
C3_Witness ==
    \E r \in 1..Len(runs) :
        /\ Finished(runs[r])
        /\ Len(runs[r].reqs) = 2
        /\ runs[r].reqs[2].status = 0
        /\ runs[r].result.message = Msg("timeout of 15000ms exceeded")

\* C4: a request answered with a status of 400 or more is the last request of
\* its run, and the run fails with a message that carries that status.
C4_StatusIsFatal ==
    \A r \in 1..Len(runs) :
        \A i \in 1..Len(runs[r].reqs) :
            runs[r].reqs[i].status >= 400 =>
                /\ i = Len(runs[r].reqs)
                /\ Finished(runs[r])
                /\ ~runs[r].result.success
                /\ runs[r].result.message.code = runs[r].reqs[i].status

\* a confirm GET answered 400 by a page that holds the confirm form: nothing is
\* POSTed
C4_Witness ==
    /\ delivered.run # 0
    /\ delivered.kind = "confirmGet"
    /\ delivered.resp.status = 400
    /\ delivered.resp.page.namedForm
    /\ Len(DeliveredRun.reqs) = 3
    /\ DeliveredRun.result.message.code = 400

LoginSignal(page) == page.passwordInput \/ page.loginAction \/ page.loginTitle

\* C5: a confirm GET response below 400 that shows a login-page signal ends the
\* run with the "not authenticated" error and without a confirm POST, whether
\* or not the page holds a form the confirm-form selectors match.
C5_LoginPageDetected ==
    [][Arrived("confirmGet")' /\ LoginSignal(delivered'.resp.page) =>
          /\ Finished(DeliveredRun')
          /\ ~DeliveredRun'.result.success
          /\ DeliveredRun'.result.message =
                Msg("Not authenticated on confirm page (login detected)")
          /\ Len(DeliveredRun'.reqs) = 3]_vars

\* the page has a title naming a login and also the form named confirm_service
C5_Witness ==
    /\ Arrived("confirmGet")
    /\ delivered.resp.page.loginTitle
    /\ ~delivered.resp.page.passwordInput
    /\ delivered.resp.page.namedForm
    /\ Finished(DeliveredRun)

\* C6: after a confirm POST below 400 the run succeeds if and only if the
\* lowercased body contains confirmed, success, submitted or thank you;
\* otherwise it fails with the "confirmation unclear" error.  Nothing else in
\* the body counts.
C6_SuccessClassification ==
    [][Arrived("confirmPost")' =>
          LET positive ==
                 \E kw \in { <<"c", "o", "n", "f", "i", "r", "m", "e", "d">>,
                             <<"s", "u", "c", "c", "e", "s", "s">>,
                             <<"s", "u", "b", "m", "i", "t", "t", "e", "d">>,
                             <<"t", "h", "a", "n", "k", " ", "y", "o", "u">> } :
                     includes(toLowerCase(delivered'.resp.page.body), kw)
          IN  /\ Finished(DeliveredRun')
              /\ DeliveredRun'.result.success = positive
              /\ ~positive => DeliveredRun'.result.message =
                    Msg("Plan change confirmation unclear - success indicators not found in response")]_vars

\* the body "Unsuccessful" is classified as a success
C6_Witness ==
    /\ Arrived("confirmPost")
    /\ delivered.resp.page.body =
          <<"U", "n", "s", "u", "c", "c", "e", "s", "s", "f", "u", "l">>
    /\ DeliveredRun.result.success

---------------------------------------------------------------------------
(* Properties of the scheduler *)

\* the engine was invoked by tick t for the entry with that id
Invoked(t, id) ==
    \E r \in 1..Len(runs) : runs[r].caller = t /\ runs[r].entry = id

\* the clocks of the entry's own zone read the entry's hour:minute at instant at
WallMatch(entry, at) ==
    /\ entry.hour = WallHour(at, scheduleTimezone(entry))
    /\ entry.minute = WallMinute(at, scheduleTimezone(entry))

\* tick t has compared the entry at position j of what it read, or has ended
\* regularly without invoking the engine for it
Evaluated(t, j) ==
    /\ ticks[t].settings.present
    /\ j \in 1..Len(ticks[t].entries)
    /\ j <= ticks[t].i \/ (ticks[t].pc = "done" /\ ~ticks[t].aborted)

\* C8: on a tick that finds settings, the engine is invoked for an enabled
\* entry if and only if the tick instant, rendered in the entry's zone, has the
\* entry's hour and minute; the run uses the stored settings with the entry's
\* psid; disabled entries are never invoked.  (Stated for the entries a tick
\* got to, so that a tick cut short does not count against it.)
C8_InvokedIffWallClockMatch ==
    /\ \A t \in 1..Len(ticks) : \A j \in 1..Len(ticks[t].entries) :
          Evaluated(t, j) =>
              (Invoked(t, ticks[t].entries[j].id)
                  <=> WallMatch(ticks[t].entries[j], ticks[t].at))
    /\ \A r \in 1..Len(runs) : runs[r].caller # 0 =>
          \E j \in 1..Len(ticks[runs[r].caller].entries) :
              LET entry == ticks[runs[r].caller].entries[j] IN
              /\ entry.id = runs[r].entry
              /\ entry.enabled
              /\ runs[r].config =
                    ConfigOf(ticks[runs[r].caller].settings, entry.psid)

\* C9: whatever the zone of the server process, the comparison a tick makes
\* for an entry comes out true exactly when the clocks of the entry's own zone
\* read the entry's hour:minute, so that entries naming the same instant in
\* different zones fire on the same tick.
C9_ServerZoneIrrelevant ==
    \A t \in 1..Len(ticks) : \A j \in 1..Len(ticks[t].entries) :
        Evaluated(t, j) =>
            (matches(ticks[t].entries[j], ticks[t].at)
                <=> WallMatch(ticks[t].entries[j], ticks[t].at))

\* C10: when the match condition of one entry holds on two consecutive ticks
\* that both found settings and both ended, the engine was invoked for it on
\* both.
C10_NoDoubleFireSuppression ==
    \A t \in 1..(Len(ticks) - 1) :
        \A j \in 1..Len(ticks[t].entries), k \in 1..Len(ticks[t + 1].entries) :
            /\ ticks[t].entries[j].id = ticks[t + 1].entries[k].id
            /\ ticks[t].settings.present /\ ticks[t + 1].settings.present
            /\ ticks[t].pc = "done" /\ ticks[t + 1].pc = "done"
            /\ matches(ticks[t].entries[j], ticks[t].at)
            /\ matches(ticks[t + 1].entries[k], ticks[t + 1].at)
            => /\ Invoked(t, ticks[t].entries[j].id)
               /\ Invoked(t + 1, ticks[t + 1].entries[k].id)

\* C11: a tick that finds no settings row invokes the engine for no entry,
\* appends no log row and ends without an error, whatever entries match.
C11_NoSettingsNoAction ==
    [][/\ Len(ticks') = Len(ticks) + 1 /\ ~ticks'[Len(ticks')].settings.present =>
            /\ runs' = runs
            /\ logs' = logs
            /\ ticks'[Len(ticks')].pc = "done"
            /\ ~ticks'[Len(ticks')].aborted
       /\ \A r \in 1..Len(runs') :
            runs'[r].caller # 0 => ticks'[runs'[r].caller].settings.present]_vars

\* a tick without settings has ended although an enabled entry matched its
\* instant
C11_Witness ==
    \E t \in 1..Len(ticks) :
        /\ ~ticks[t].settings.present
        /\ ticks[t].pc = "done"
        /\ \E j \in 1..Len(ticks[t].entries) :
              matches(ticks[t].entries[j], ticks[t].at)
        /\ logs = <<>>

\* C12: whatever fails while one entry of a tick is handled, the tick still
\* compares its remaining entries and invokes the engine for those that match:
\* a tick that found settings and has ended invoked every matching entry.
C12_FailureIsolatedPerEntry ==
    \A t \in 1..Len(ticks) :
        ticks[t].settings.present /\ ticks[t].pc = "done" =>
            \A j \in 1..Len(ticks[t].entries) :
                matches(ticks[t].entries[j], ticks[t].at) =>
                    Invoked(t, ticks[t].entries[j].id)

\* the entry of its tick that a scheduled run was started for
EntryOf(run) ==
    LET tick == ticks[run.caller]
    IN  tick.entries[CHOOSE j \in 1..Len(tick.entries) :
                        tick.entries[j].id = run.entry]

ScheduledRows(label) ==
    {i \in 1..Len(logs) : logs[i].message.label = label}

\* C13 as stated: every engine invocation of a tick that has finished has
\* exactly one log row, marked "Scheduled (<timezone>): ".
C13_OneScheduledRowPerInvocation ==
    /\ Cardinality(ScheduledRows("Scheduled")) =
          Cardinality({r \in 1..Len(runs) :
                          runs[r].caller # 0 /\ Finished(runs[r])})
    /\ ScheduledRows("Scheduled task failed") = {}

\* C13, amended: in the turn in which a scheduled run finishes at most one log
\* row is appended, and no scheduled row is appended in any other turn.  When
\* the database takes the first write, the row is "Scheduled (<timezone>): "
\* followed by the run's message, with the run's success flag; when the first
\* write throws and the second is taken, the row is "Scheduled task failed
\* (<timezone>): " with success = false; when both throw there is no row.
C13_ScheduledRowAmended ==
    [][LET r == delivered'.run
           added == Len(logs') - Len(logs)
           row == logs'[Len(logs')]
       IN  /\ SubSeq(logs', 1, Len(logs)) = logs
           /\ IF r # 0 /\ Finished(runs'[r]) /\ runs'[r].caller # 0
              THEN CASE dbFaultsLeft - dbFaultsLeft' = 0 ->
                          /\ added = 1
                          /\ row.message.label = "Scheduled"
                          /\ row.message.tz = scheduleTimezone(EntryOf(runs[r]))
                          /\ row.message.text = runs'[r].result.message.text
                          /\ row.success = runs'[r].result.success
                     [] dbFaultsLeft - dbFaultsLeft' = 1 ->
                          /\ added = 1
                          /\ row.message.label = "Scheduled task failed"
                          /\ row.message.tz = scheduleTimezone(EntryOf(runs[r]))
                          /\ ~row.success
                     [] OTHER -> added = 0
              ELSE /\ added \in {0, 1}
                   /\ added = 1 => row.message.label = ""]_vars

\* one scheduled run was logged with the failure marker after its first write
\* threw, another with the regular marker
C13_Witness ==
    /\ ScheduledRows("Scheduled task failed") # {}
    /\ ScheduledRows("Scheduled") # {}

\* C14: a call of initScheduler while the flag is set registers no timer, so
\* whatever the number of calls there is one timer and no minute has two tick
\* callbacks.
C14_InitIdempotent ==
    [][/\ delivered' = InitCall /\ isInitialized =>
            timers' = timers /\ isInitialized'
       /\ Len(timers') = (IF isInitialized' THEN 1 ELSE 0)
       /\ \A t, u \in 1..Len(ticks') :
            t # u => ticks'[t].at # ticks'[u].at]_vars

\* initScheduler was called after the timer had already produced two ticks
C14_Witness ==
    /\ delivered = InitCall
    /\ Len(ticks) = 2
    /\ Len(timers) = 1

---------------------------------------------------------------------------
(* Properties of the CLI job *)

\* C15: at most one process of the job is past lock acquisition at a time, a
\* process issues requests only while it holds the lock, and a process that
\* found the lock file present issues no request, logs the skip and exits 0.
C15_SingleHolder ==
    /\ Cardinality({p \in Pids : procs[p].lockAcquired}) <= 1
    /\ \A p \in Pids :
          /\ procs[p].pc \in {"loginGet", "loginPost", "confirmGet", "confirmPost"}
                => procs[p].lockAcquired /\ lockFile = p
          /\ procs[p].openErr = "EEXIST" =>
                /\ procs[p].reqs = <<>>
                /\ procs[p].pc = "exited" =>
                      procs[p].exit = 0 /\ procs[p].skipLogged

\* one process has come as far as its confirm GET while another one, started
\* meanwhile, has skipped
C15_Witness ==
    \E p, q \in Pids :
        /\ procs[p].pc = "confirmGet"
        /\ procs[q].pc = "exited"
        /\ procs[q].openErr = "EEXIST"
        /\ procs[q].skipLogged
        /\ procs[q].exit = 0

\* C16: a process of the job exits with code 1 whenever its login or confirm
\* step failed or a required option or variable is missing, and with code 0
\* only when its run completed or it skipped because the lock was held.
C16_ExitCodes ==
    \A p \in Pids : procs[p].pc = "exited" =>
        /\ procs[p].error # "" \/ ~loadEnvAndArgs(procs[p].args)
              => procs[p].exit = 1
        /\ procs[p].exit = 0 =>
              \/ Len(procs[p].reqs) = 4 /\ procs[p].error = ""
              \/ procs[p].openErr = "EEXIST"

\* the steps of process p
Steps(p) == procs'[p] # procs[p]

\* process p ends in this step with its listeners run
Exits(p) == procs[p].pc # "exited" /\ procs'[p].pc = "exited"

\* C31: when a process that created the lock file ends by completion, by an
\* unhandled error, by process.exit in the option checks or by SIGINT or
\* SIGTERM at any point after the file was created, the file is removed.
C31_LockRemovedOnExit ==
    [][\A p \in Pids : (Exits(p) /\ lockFile = p) => lockFile' = 0]_vars

\* the holder of the lock has died without cleanup
Stale == lockFile # 0 /\ procs[lockFile].pc = "killed"

\* C32: while the lock file of a process that died without cleanup is there,
\* no process removes or takes it over, every process that opens it finds it
\* present, and a process that found it present issues no request and exits
\* with code 0 unless a signal ends it first.
C32_StaleLockBlocks ==
    [][Stale =>
          /\ lockFile' = lockFile \/ (lockFile' = 0 /\ procs' = procs)
          /\ \A q \in Pids :
                /\ (procs[q].pc = "open" /\ procs'[q].pc = "opened")
                      => procs'[q].openErr = "EEXIST"
                /\ (procs[q].pc = "opened" /\ Exits(q)) =>
                      /\ procs'[q].reqs = <<>>
                      /\ procs'[q].exit \in {0, SigInt, SigTerm}
                      /\ procs'[q].exit = 0 => procs'[q].skipLogged]_vars

\* a process was killed while its confirm POST was out, and a later one has
\* skipped
C32_Witness ==
    \E p, q \in Pids :
        /\ procs[p].pc = "killed"
        /\ procs[p].reqs = <<"loginGet", "loginPost", "confirmGet", "confirmPost">>
        /\ lockFile = p
        /\ procs[q].pc = "exited"
        /\ procs[q].openErr = "EEXIST"
        /\ procs[q].exit = 0
        /\ procs[q].reqs = <<>>

\* C35: a process never removes a lock file another process created,
\* whichever way it ends.
C35_OnlyCreatorDeletes ==
    [][\A q \in Pids :
          (Steps(q) /\ lockFile # 0 /\ lockFile # q) => lockFile' = lockFile]_vars

\* a process that lost the race was ended by a signal, another one skipped, and
\* the holder's file is still there
C35_Witness ==
    \E p, q \in Pids :
        /\ lockFile = p
        /\ procs[p].lockAcquired
        /\ procs[q].pc = "exited"
        /\ procs[q].openErr = "EEXIST"
        /\ procs[q].exit = SigTerm

---------------------------------------------------------------------------
(* Properties of the plan names and of the form fields *)

\* the normalized key is the normalized form of a canonical name or an alias
Listed(norm) ==
    \/ \E i \in 1..Len(PLAN_TO_PSID_CANONICAL) :
           normalizePlanName(Chars(PLAN_TO_PSID_CANONICAL[i].name)) = norm
    \/ \E i \in 1..Len(PLAN_NAME_ALIASES) : PLAN_NAME_ALIASES[i].alias = norm

\* C17: resolvePlanToPsid returns null, and no record, for every input whose
\* normalized form is neither the normalized form of a canonical name nor a
\* listed alias.
C17_UnknownIsNotFound ==
    (resolved.called /\ ~Listed(resolved.norm)) => resolved.result = NotFound

\* C18: normalizing a normalized plan name changes nothing, whatever white
\* space and hyphens the input had.
C18_NormalizeIdempotent ==
    resolved.called => normalizePlanName(resolved.norm) = resolved.norm

\* an input with white space around a run of hyphens has been normalized
C18_Witness ==
    /\ resolved.called
    /\ resolved.input = <<" ", "-", " ", "-">>
    /\ resolved.norm = <<"-">>

\* the input without its white space, in lower case
squeezed(s) ==
    toLowerCase(SelectSeq(s, LAMBDA c : c \notin WhiteSpace))

PlanRecord(psid, canonical) ==
    [found |-> TRUE, psid |-> psid, canonical |-> canonical]

\* C19: every canonical name resolves to its own code and name, and every
\* alias, in any letter case and with any extra white space, resolves to the
\* code and the name it points to; "home-fast" is 2669 "Home Fast" and
\* "IOT 1MBPS" is 2629 "IoT 1Mbps".
C19_ListedNamesResolve ==
    resolved.called =>
        /\ \A i \in 1..Len(PLAN_TO_PSID_CANONICAL) :
               LET plan == PLAN_TO_PSID_CANONICAL[i]
               IN  resolved.input = Chars(plan.name) =>
                       resolved.result = PlanRecord(plan.psid, plan.name)
        /\ \A j \in 1..Len(PLAN_NAME_ALIASES) :
               LET alias == PLAN_NAME_ALIASES[j]
               IN  squeezed(resolved.input) = alias.alias =>
                       \E i \in 1..Len(PLAN_TO_PSID_CANONICAL) :
                           /\ PLAN_TO_PSID_CANONICAL[i].name = alias.canonical
                           /\ resolved.result =
                                  PlanRecord(PLAN_TO_PSID_CANONICAL[i].psid,
                                             alias.canonical)
        /\ resolved.input = <<"h", "o", "m", "e", "-", "f", "a", "s", "t">> =>
               resolved.result = PlanRecord(2669, "Home Fast")
        /\ resolved.input = <<"I", "O", "T", " ", "1", "M", "B", "P", "S">> =>
               resolved.result = PlanRecord(2629, "IoT 1Mbps")

\* "IOT 1MBPS" has been resolved
C19_Witness ==
    /\ resolved.called
    /\ resolved.input = <<"I", "O", "T", " ", "1", "M", "B", "P", "S">>
    /\ resolved.result.found

\* the control is an input element with a name
NamedInput(el) == el.tag = "input" /\ el.name \notin {NoAttr, ""}

\* the control is a checkbox or a radio button
Tickable(el) == typeOf(el) \in {"checkbox", "radio"}

\* the field set holds this value under this name
Holds(data, name, value) == name \in DOMAIN data /\ data[name] = value

\* C20: the scraped field set holds a checked checkbox or radio button with
\* its value, or "on" without a value attribute, holds every other named input
\* with its value, or "" without one, and has no entry for an unchecked
\* checkbox or radio button nor for a field without a name.
C20_ScrapedFields ==
    scraped.called =>
        /\ \A i \in 1..Len(scraped.form) :
               LET el == scraped.form[i]
               IN  NamedInput(el) =>
                       IF Tickable(el)
                       THEN IF el.checked
                            THEN Holds(scraped.data, el.name, orElse(el.value, "on"))
                            ELSE el.name \notin DOMAIN scraped.data
                       ELSE Holds(scraped.data, el.name, orElse(el.value, ""))
        /\ "" \notin DOMAIN scraped.data
        /\ NoAttr \notin DOMAIN scraped.data

---------------------------------------------------------------------------
(* Properties of the routes *)

\* C21: whatever schedule create and update requests were made, every stored
\* entry has a whole hour in 0..23, a whole minute in 0..59 and a time zone
\* that resolves.
C21_StoredSchedulesValid ==
    \A i \in 1..Len(schedules) :
        /\ schedules[i].hour \in 0..23 /\ schedules[i].hourTenths = 0
        /\ schedules[i].minute \in 0..59 /\ schedules[i].minuteTenths = 0
        /\ isValidTimezone(schedules[i].timezone)

\* C22: the response of GET /api/settings has no password in it: it is the
\* response any other non-empty stored password would give, and it carries
\* hasPassword.
C22_PasswordNotReturned ==
    [][(reply'.route = "GET /api/settings" /\ settings'.present) =>
           /\ \A pw \in Passwords \cup {settings'.password, "another one"} :
                  settingsJson([settings' EXCEPT !.password = pw]) = reply'.body
           /\ "password" \notin DOMAIN reply'.body.settings
           /\ reply'.body.hasPassword]_vars

\* GET has answered for a stored row
C22_Witness ==
    /\ reply.route = "GET /api/settings"
    /\ settings.present
    /\ settings.password = "hunter2"
    /\ reply.body.hasPassword

\* C23: with a password stored, a save whose password is blank is accepted and
\* the stored password stays.
C23_BlankPasswordKept ==
    [][(/\ reply'.route = "POST /api/settings"
        /\ reply' # reply
        /\ settings.present /\ settings.password # ""
        /\ reply'.request.password = ""
        /\ settingsComplete([reply'.request EXCEPT !.password = "x"])) =>
           /\ reply'.status = 200
           /\ settings'.password = settings.password]_vars

\* the canonical name whose code is the configured plan code, if any
CatalogName(psid) ==
    IF \E i \in 1..Len(PLAN_TO_PSID_CANONICAL) :
           PLAN_TO_PSID_CANONICAL[i].psid = ToNumber(psid)
    THEN PLAN_TO_PSID_CANONICAL[
             CHOOSE i \in 1..Len(PLAN_TO_PSID_CANONICAL) :
                 PLAN_TO_PSID_CANONICAL[i].psid = ToNumber(psid)].name
    ELSE Undefined

\* C24: a successful result carries the configured plan code and the canonical
\* name of that code (none when the code is not in the catalogue), a failed
\* result carries neither, and the timestamp of both is the instant the run
\* began.
C24_ResultFields ==
    [][\A r \in 1..Len(runs') :
          /\ r > Len(runs) => runs'[r].timestamp = now
          /\ r <= Len(runs) => runs'[r].timestamp = runs[r].timestamp
          /\ runs'[r].returned = 1 =>
                LET result == runs'[r].result IN
                /\ result.timestamp = runs'[r].timestamp
                /\ result.success =>
                       /\ result.psid = runs'[r].config.psid
                       /\ result.planName = CatalogName(runs'[r].config.psid)
                /\ ~result.success =>
                       /\ result.psid = Undefined
                       /\ result.planName = Undefined]_vars

\* a run that began a minute earlier has returned a successful result
C24_Witness ==
    \E r \in 1..Len(runs) :
        /\ runs[r].returned = 1
        /\ runs[r].result.success
        /\ runs[r].result.planName = "Home Fast"
        /\ runs[r].result.timestamp < now

---------------------------------------------------------------------------
(* Further properties of the scheduler *)

\* a run started by a tick has not returned yet
InFlight(run) == run.caller # 0 /\ run.pc # "done"

\* C25: a tick that begins while a run of an earlier tick is in flight and
\* finds settings invokes the engine for its first entry whose hour and minute
\* compare equal, as it does when nothing is in flight.
C25_NoSkipIfRunning ==
    [][(/\ Len(ticks') = Len(ticks) + 1
        /\ \E r \in 1..Len(runs) : InFlight(runs[r])
        /\ ticks'[Len(ticks')].settings.present
        /\ \E j \in 1..Len(ticks'[Len(ticks')].entries) :
               matches(ticks'[Len(ticks')].entries[j], now)) =>
           /\ Len(runs') = Len(runs) + 1
           /\ runs'[Len(runs')].caller = Len(ticks')
           /\ InFlight(runs'[Len(runs')])]_vars

\* two runs started by two ticks are in flight together
C25_Witness ==
    \E r, q \in 1..Len(runs) :
        /\ InFlight(runs[r]) /\ InFlight(runs[q])
        /\ runs[r].caller # runs[q].caller

\* C26: every run a tick starts uses the settings that are stored when that
\* run starts, also when they were saved again while an earlier run of the
\* tick was in flight.
C26_SettingsReadPerRun ==
    [][\A r \in (Len(runs) + 1)..Len(runs') :
          runs'[r].caller # 0 =>
              runs'[r].config = ConfigOf(settings, runs'[r].config.psid)]_vars

\* the instants the clock shows in some execution
Instants == {s + d : s \in StartInstants, d \in 0..MaxAdvance}

MinutesPerDay == MinutesPerHour * HoursPerDay

\* instant m is earlier than instant t on the same day of the entry's zone and
\* the clocks of that zone read the entry's hour:minute at m
DueEarlier(entry, m, t) ==
    /\ m < t
    /\ toLocaleString(m, scheduleTimezone(entry)) \div MinutesPerDay =
           toLocaleString(t, scheduleTimezone(entry)) \div MinutesPerDay
    /\ WallMatch(entry, m)

\* C27: a tick invokes the engine for no entry whose hour:minute passed earlier
\* that day without a tick: the missed trigger is not made up for.
C27_NoCatchUp ==
    \A r \in 1..Len(runs) :
        runs[r].caller # 0 =>
            \A m \in Instants :
                DueEarlier(EntryOf(runs[r]), m, ticks[runs[r].caller].at) =>
                    \E t \in 1..Len(ticks) : ticks[t].at = m

\* the minute of an enabled entry passed without a tick, a later tick of that
\* day found settings and ended, and the engine was not invoked for the entry
C27_Witness ==
    \E t \in 1..Len(ticks), j \in 1..Len(schedules), m \in Instants :
        /\ ticks[t].settings.present
        /\ ticks[t].pc = "done" /\ ~ticks[t].aborted
        /\ schedules[j].enabled
        /\ \E k \in 1..Len(ticks[t].entries) : ticks[t].entries[k] = schedules[j]
        /\ DueEarlier(schedules[j], m, ticks[t].at)
        /\ \A u \in 1..Len(ticks) : ticks[u].at # m
        /\ \A u \in 1..Len(ticks) : ~Invoked(u, schedules[j].id)

\* C33: from the return of stopScheduler to the next call of initScheduler no
\* tick callback starts.
C33_StopStops ==
    [][~isInitialized => Len(ticks') = Len(ticks)]_vars

\* C34: whatever calls of initScheduler and stopScheduler were made, there is
\* at most one cron task and no minute has two tick callbacks.
C34_OneTimer ==
    /\ Len(timers) <= 1
    /\ \A t, u \in 1..Len(ticks) : t # u => ticks[t].at # ticks[u].at

\* C36: every run the scheduler starts is for an entry that is stored and
\* enabled at the moment the run starts.
C36_RetiredNotExecuted ==
    [][\A r \in (Len(runs) + 1)..Len(runs') :
          runs'[r].caller # 0 =>
              \E i \in 1..Len(schedules) :
                  schedules[i].id = runs'[r].entry /\ schedules[i].enabled]_vars

\* the runs tick t has started
RunsOf(t, all) == {q \in 1..Len(all) : all[q].caller = t}

\* position in what tick t read of the entry a run was started for
PositionOf(t, run) ==
    CHOOSE j \in 1..Len(ticks[t].entries) : ticks[t].entries[j].id = run.entry

\* C37: a tick has at most one run in flight; when it starts a run, every
\* earlier run of the tick has finished, the outcome of the previous one was
\* written to the log in the same turn, and the new run is for an entry that
\* comes later in what getEnabledSchedules returned.
C37_OneAfterAnother ==
    [][/\ \A t \in 1..Len(ticks') :
             Cardinality({q \in RunsOf(t, runs') : ~Finished(runs'[q])}) <= 1
       /\ \A r \in (Len(runs) + 1)..Len(runs') :
             LET t == runs'[r].caller IN
             t # 0 =>
                 \A q \in RunsOf(t, runs) :
                     /\ Finished(runs'[q])
                     /\ Len(logs') = Len(logs) + 1
                     /\ logs'[Len(logs')].message.label
                            \in {"Scheduled", "Scheduled task failed"}
                     /\ PositionOf(t, runs[q]) < ticks'[t].i
                     /\ ticks'[t].entries[ticks'[t].i].id = runs'[r].entry]_vars

\* the second run of a tick is in flight after the first one has finished and
\* was logged
C37_Witness ==
    \E r, q \in 1..Len(runs) :
        /\ r < q
        /\ runs[r].caller # 0
        /\ runs[r].caller = runs[q].caller
        /\ Finished(runs[r])
        /\ InFlight(runs[q])
        /\ Len(logs) = 1

\* C38: a tick compares every entry with the instant at which it started: each
\* of its runs is for an entry that matches at that instant, and when it has
\* ended without an exception leaving the loop every entry that matched at
\* that instant was invoked, however long the earlier runs took.
C38_TickInstant ==
    \A t \in 1..Len(ticks) :
        /\ \A r \in RunsOf(t, runs) :
               matches(ticks[t].entries[PositionOf(t, runs[r])], ticks[t].at)
        /\ (ticks[t].settings.present /\ ticks[t].pc = "done" /\ ~ticks[t].aborted) =>
               \A j \in 1..Len(ticks[t].entries) :
                   matches(ticks[t].entries[j], ticks[t].at) =>
                       Invoked(t, ticks[t].entries[j].id)

\* the second run of a tick started two minutes after the tick, when its
\* entry no longer matched the clock
C38_Witness ==
    \E r \in 1..Len(runs) :
        /\ runs[r].caller # 0
        /\ runs[r].timestamp >= ticks[runs[r].caller].at + 2
        /\ ~matches(ticks[runs[r].caller].entries[PositionOf(runs[r].caller, runs[r])],
                    runs[r].timestamp)

\* C39: the log row the scheduler appends when a run of an entry has finished
\* carries the plan code and the plan name of that entry, whether the run
\* succeeded or failed.
C39_RowCarriesPlan ==
    [][LET r == delivered'.run
           row == logs'[Len(logs')]
       IN  (/\ Len(logs') = Len(logs) + 1
            /\ r # 0
            /\ runs'[r].caller # 0) =>
               /\ row.psid = EntryOf(runs'[r]).psid
               /\ row.planName = EntryOf(runs'[r]).planName]_vars

---------------------------------------------------------------------------
(* The job against the service *)

\* the kinds of the requests a run of the service has issued
KindsOf(run) == [i \in 1..Len(run.reqs) |-> run.reqs[i].kind]

\* C40: when the service and a process of the job were given the same
\* responses, the process exits with a code other than 0 exactly when
\* changePlan returned success = false, and both issued the same requests.
C40_SameOutcome ==
    \A r \in 1..Len(runs), p \in Pids :
        (/\ runs[r].caller = 0 /\ Finished(runs[r])
         /\ procs[p].pc = "exited" /\ procs[p].reqs # <<>>) =>
            /\ (procs[p].exit # 0) <=> ~runs[r].result.success
            /\ procs[p].reqs = KindsOf(runs[r])

---------------------------------------------------------------------------
(* Properties of the POST bodies *)

\* the body has exactly one pair for the key, with this value
Sends(body, k, v) == \A pair \in body : pair[1] = k <=> pair = <<k, v>>

Has(body, k) == \E pair \in body : pair[1] = k

\* the key the user name goes to, and the key the password goes to
UserKey(fields) ==
    IF "username" \in DOMAIN fields THEN "username"
    ELSE IF "email" \in DOMAIN fields THEN "email"
    ELSE IF "user" \in DOMAIN fields THEN "user"
    ELSE IF "login" \in DOMAIN fields THEN "login"
    ELSE "username"

PassKey(fields) ==
    IF "password" \in DOMAIN fields THEN "password"
    ELSE IF "passwd" \in DOMAIN fields THEN "passwd"
    ELSE IF "pass" \in DOMAIN fields THEN "pass"
    ELSE "password"

\* C28: the login body holds the configured user name under the first of
\* username, email, user, login the form has (else username), the configured
\* password under the first of password, passwd, pass (else password), and
\* every other scraped field with its scraped value, and nothing else.
C28_LoginBody ==
    (built.kind = "login" /\ built.called) =>
        /\ Has(built.body, UserKey(built.fields))
        /\ Sends(built.body, UserKey(built.fields), built.config.username)
        /\ Has(built.body, PassKey(built.fields))
        /\ Sends(built.body, PassKey(built.fields), built.config.password)
        /\ \A k \in DOMAIN built.fields \ {UserKey(built.fields), PassKey(built.fields)} :
               Has(built.body, k) /\ Sends(built.body, k, built.fields[k])
        /\ \A pair \in built.body :
               pair[1] \in DOMAIN built.fields
                   \cup {UserKey(built.fields), PassKey(built.fields)}

\* a form with email, username-less, and pass has been filled in
C28_Witness ==
    /\ built.kind = "login" /\ built.called
    /\ DOMAIN built.fields = {"email", "login", "pass", "csrf"}
    /\ <<"email", "alice">> \in built.body
    /\ <<"login", "scraped">> \in built.body
    /\ <<"csrf", "token">> \in built.body

ConfirmServicePath ==
    <<"/", "c", "o", "n", "f", "i", "r", "m", "_", "s", "e", "r", "v", "i", "c", "e">>

\* position of the first of the hits, 0 when there is none
FirstForm(hits) ==
    IF hits = {} THEN 0 ELSE CHOOSE i \in hits : \A j \in hits : i <= j

\* C29: on a confirm page that passed the authentication check, the confirm
\* form is the first form named confirm_service; without one, the first whose
\* action contains /confirm_service; without one, the first holding an input
\* named psid; it is the form scraped and posted.  Without a match the run
\* fails with "Confirm form not found" and posts nothing.
C29_ConfirmFormPriority ==
    (built.kind = "confirm" /\ built.called /\ ~built.looksLikeLogin) =>
        LET forms == built.forms
            named == FirstForm({i \in DOMAIN forms : forms[i].name = "confirm_service"})
            byAction == FirstForm({i \in DOMAIN forms :
                                      includes(forms[i].action, ConfirmServicePath)})
            byPsid == FirstForm({i \in DOMAIN forms : forms[i].psidInput})
            wanted == IF named # 0 THEN named
                      ELSE IF byAction # 0 THEN byAction ELSE byPsid
        IN  /\ built.chosen = wanted
            /\ wanted # 0 =>
                   /\ built.posted
                   /\ built.error = ""
                   /\ built.fields = built.forms[wanted].fields
                   /\ "csrf" \in DOMAIN built.fields =>
                          <<"csrf", built.forms[wanted].fields.csrf>> \in built.body
            /\ wanted = 0 =>
                   /\ ~built.posted
                   /\ built.body = {}
                   /\ built.error = "Confirm form not found on the page"

\* the second form was taken for its action although the first holds a psid
\* input
C29_Witness ==
    /\ built.kind = "confirm" /\ built.called
    /\ Len(built.forms) = 2
    /\ built.forms[1].psidInput /\ built.forms[1].name # "confirm_service"
    /\ built.chosen = 2
    /\ <<"csrf", "action">> \in built.body

\* the keys confirmService sets from the configuration
Overridden ==
    {"userid", "psid", "locid", "avcid", "unpause", "scheduleddt", "coat",
     "new_service_payment_option"}

\* C30: in the confirm body psid is the configured plan code and userid,
\* locid, avcid, unpause, scheduleddt, coat and new_service_payment_option are
\* the configured values or their defaults, whatever was scraped; ntdreplace
\* and ntdupgrade keep a scraped value and are "0" otherwise; every scraped
\* field outside these and discount_code is sent as scraped.
C30_ConfirmBody ==
    (built.kind = "confirm" /\ built.posted) =>
        LET config == built.config
            fields == built.fields
            body == built.body
        IN  /\ \A k \in Overridden \cup {"ntdreplace", "ntdupgrade"} : Has(body, k)
            /\ Sends(body, "psid", config.psid)
            /\ Sends(body, "userid", config.userId)
            /\ Sends(body, "locid", config.locId)
            /\ Sends(body, "avcid", config.avcId)
            /\ Sends(body, "unpause", IF config.unpause = "" THEN "0" ELSE config.unpause)
            /\ Sends(body, "scheduleddt", config.scheduledDt)
            /\ Sends(body, "coat", IF config.coat = "" THEN "0" ELSE config.coat)
            /\ Sends(body, "new_service_payment_option",
                     config.newServicePaymentOption)
            /\ \A k \in {"ntdreplace", "ntdupgrade"} :
                   Sends(body, k, IF k \in DOMAIN fields THEN fields[k] ELSE "0")
            /\ \A k \in DOMAIN fields \ (Overridden \cup {"discount_code"}) :
                   Has(body, k) /\ Sends(body, k, fields[k])

\* a form that had its own psid, userid and ntdreplace has been posted
C30_Witness ==
    /\ built.kind = "confirm" /\ built.posted
    /\ {"psid", "userid", "ntdreplace", "csrf"} \subseteq DOMAIN built.fields
    /\ built.fields.psid = "scraped"
    /\ <<"psid", "2623">> \in built.body
    /\ <<"ntdreplace", "scraped">> \in built.body
    /\ <<"ntdupgrade", "0">> \in built.body

====
